---- MODULE Spec2Model ----
(***************************************************************************)
(* The CI log-intelligence tools of .crewai/tools: CIOutputParserTool      *)
(* (ci_output_parser_tool.py) and SearchLogTool / ReadFullLogTool          *)
(* (ci_tools.py), as a state machine over a results directory.             *)
(*                                                                         *)
(* A log file is a record [lines, size]: `lines` is the sequence of the    *)
(* file's lines, each given by its kind (the concrete line text a kind     *)
(* stands for is fixed below, up to the length of its free message text),  *)
(* `size` is st_size in bytes.  Both f.readlines() and content.split("\n") *)
(* are modelled as yielding `lines`; the extra "" element split() yields   *)
(* for a newline-terminated file carries no text of the log.               *)
(*                                                                         *)
(* Further down: the WorkspaceTool (workspace_tool.py) over its workspace  *)
(* directory, the global cost tracker (cost_tracker.py), the               *)
(* GlobalRateLimiter (utils/model_config.py) used by several threads, and  *)
(* the workflow steps of main() (main.py).  Each has its own              *)
(* specification; the parts a specification does not use stay as they     *)
(* are after construction.                                                 *)
(***************************************************************************)
EXTENDS Integers, Sequences, FiniteSets, TLC

VARIABLES
    root_exists,   \* the results root directory exists
    job_index,     \* _job_index.json: NoIndex, Corrupt, or JobIndex(jobs)
    logs,          \* folder -> NoDir | NoLog | LogFile(lines, size)
    dir_order,     \* the order in which Path.iterdir() yields the subdirectories
    env,           \* the CORE_CI_RESULT environment variable (NoEnv when unset)
    call,          \* the last tool call and its arguments
    result,        \* what that call returned (or raised)
    workspace,     \* WorkspaceTool: name -> what the workspace directory holds
    ws_written,    \* name -> the write calls made for it so far (history)
    global_tracker,\* cost_tracker._global_tracker: NoTracker or a CostTracker
    tracker_made,  \* the number of CostTracker objects constructed so far
    tracker_log,   \* what was logged and handed out since the last reset (history)
    limiter,       \* the GlobalRateLimiter instance: limit, request times, lock
    now,           \* time.time(), in tenths of a second
    threads,       \* thread -> where it is in wait_if_needed
    recorded,      \* every request recorded, with the limit it was let through under (history)
    main           \* main(): its inputs, its position and its local variables

vars == <<root_exists, job_index, logs, dir_order, env, call, result,
          workspace, ws_written, global_tracker, tracker_made, tracker_log,
          limiter, now, threads, recorded, main>>

\* The results directory and the environment, which no tool writes.
fsVars == <<root_exists, job_index, logs, dir_order, env>>
\* The workspace directory and the history of its writes.
wsVars == <<workspace, ws_written>>
\* The global cost tracker and the history of its use.
trackerVars == <<global_tracker, tracker_made, tracker_log>>
\* The rate limiter, the clock and the threads using it.
limiterVars == <<limiter, now, threads, recorded>>
\* What a call of a CI log tool leaves alone.
ciFrame == <<fsVars, wsVars, trackerVars, limiterVars, main>>
\* What a call of the WorkspaceTool leaves alone.
wsFrame == <<fsVars, trackerVars, limiterVars, main>>
\* What a call of the cost tracker leaves alone.
trackerFrame == <<fsVars, wsVars, limiterVars, main>>
\* What a step of the rate limiter leaves alone.
limiterFrame == <<fsVars, wsVars, trackerVars, main, call, result>>
\* What a step of main() leaves alone in this model: the crews it runs are
\* kept as their outcome only.
mainFrame == <<fsVars, wsVars, trackerVars, limiterVars, call, result>>

(***************************************************************************)
(* Bounds of the model.                                                    *)
(***************************************************************************)
MaxLogLen == 3        \* lines of an enumerated log
MaxPatterns == 2      \* length of a search_patterns list
MaxContext == 2       \* largest context_lines argument
MaxMatchesArg == 2    \* largest max_matches argument
MaxLinesArg == 3      \* largest max_lines argument
MaxTrackers == 3      \* CostTracker objects constructed in a run
MaxCalls == 3         \* API calls logged on one tracker
MaxRequests == 4      \* requests made of the rate limiter
MaxTime == 500        \* the clock is advanced up to here (tenths of a second)
MaxWorkflows == 3     \* length of the router decision's workflows list

(***************************************************************************)
(* Program constants.                                                      *)
(***************************************************************************)
SMALL_LOG_THRESHOLD == 50
MEDIUM_LOG_THRESHOLD == 200
DEFAULT_MAX_MATCHES == 50
DEFAULT_CONTEXT_LINES == 3

\* _job_index.json: absent, unparsable, or a list of job entries.
NoIndex == [state |-> "absent", jobs |-> <<>>]
Corrupt == [state |-> "corrupt", jobs |-> <<>>]
JobIndex(jobs) == [state |-> "ok", jobs |-> jobs]

\* A subdirectory of the results root: absent, without log.txt, or with it.
NoDir == [state |-> "nodir", lines |-> <<>>, size |-> 0]
NoLog == [state |-> "nolog", lines |-> <<>>, size |-> 0]
LogFile(lines, size) == [state |-> "file", lines |-> lines, size |-> size]
\* log.txt exists and open() raises on it (it is a directory, or the reader
\* has no permission): exists() and stat() succeed, reading does not.
Unreadable(lines, size) == [state |-> "unreadable", lines |-> lines, size |-> size]

\* os.getenv("CORE_CI_RESULT"): unset, or its value.
NoEnv == [set |-> FALSE, value |-> ""]
EnvValue(v) == [set |-> TRUE, value |-> v]

Folders == {"lint", "test"}

\* A subdirectory whose name starts with "." (name.startswith(".")).
HiddenFolders == {".cache"}
StartsWithDot(name) == name \in HiddenFolders

(***************************************************************************)
(* Line kinds and the text each stands for:                                *)
(*   ruffE  src/a.py:1:2: E501 line too long                               *)
(*   ruffW  src/a.py:3:1: W291 trailing whitespace                         *)
(*   black  would reformat src/a.py                                        *)
(*   plain  ok                                                             *)
(* and, for the parsers examined line by line further below (<ESC> is the  *)
(* byte 0x1B):                                                             *)
(*   isort          ERROR: src/a.py Imports are incorrectly sorted and/or  *)
(*                  formatted.                                             *)
(*   pytest         FAILED tests/test_x.py::test_foo - AssertionError: bad *)
(*   build          Error: build failed                                    *)
(*   slHdr          --- stylelint ---                                      *)
(*   slPlain        __3:5__X__Expected lowercase__color-hex-case           *)
(*   slRuleInvalid  __3:5__X__Expected lowercase__color-no-invalid-hex     *)
(*   slRuleError    __3:5__X__Unknown word__CssSyntaxError                 *)
(*   slMsgInvalid   __3:5__X__Invalid hex color__color-hex-case            *)
(*   slAnsi         slPlain with X as <ESC>[31mX<ESC>[39m and the rule as  *)
(*                  <ESC>[2mcolor-hex-case<ESC>[22m                        *)
(*   ruffAnsi       <ESC>[1msrc/a.py<ESC>[0m<ESC>[36m:<ESC>[0m1<ESC>[36m:  *)
(*                  <ESC>[0m2<ESC>[36m:<ESC>[0m <ESC>[1;31mE501<ESC>[0m    *)
(*                  line too long                                          *)
(* where _ is a space and X the cross U+2716 stylelint prints.  Every line *)
(* ends in one "\n".                                                       *)
(***************************************************************************)
LineKinds == {"ruffE", "ruffW", "black", "plain"}

Max(a, b) == IF a >= b THEN a ELSE b
Min(a, b) == IF a <= b THEN a ELSE b

RECURSIVE Flatten(_)
Flatten(ss) == IF ss = <<>> THEN <<>> ELSE Head(ss) \o Flatten(Tail(ss))

\* Python's seq[start:end] for integer start and end (negative indices count
\* from the end, out-of-range indices are clipped).
PySlice(s, start, end) ==
    LET n == Len(s)
        lo == IF start < 0 THEN Max(0, n + start) ELSE Min(start, n)
        hi == IF end < 0 THEN Max(0, n + end) ELSE Min(end, n)
    IN  IF lo >= hi THEN <<>> ELSE SubSeq(s, lo + 1, hi)

(***************************************************************************)
(* The format parsers.  CIError keeps the fields the aggregation reads     *)
(* (tool, severity), the code extracted from the line and the message.     *)
(***************************************************************************)
CIError(tool, severity, code, message) ==
    [tool |-> tool, severity |-> severity, code |-> code, message |-> message]

\* The Findings one parser's pattern yields on one line of the given kind.
\* Each row is the parser's regular expression applied to the kind's text.
LineFindings(tool, kind) ==
    CASE tool = "ruff" /\ kind = "ruffE" ->
            <<CIError("ruff", "critical", "E501", "line too long")>>
      [] tool = "ruff" /\ kind = "ruffW" ->
            <<CIError("ruff", "warning", "W291", "trailing whitespace")>>
      [] tool = "black" /\ kind = "black" ->
            <<CIError("black", "info", "", "File needs formatting")>>
      [] tool = "isort" /\ kind = "isort" ->
            <<CIError("isort", "warning", "", "Imports are incorrectly sorted")>>
      [] tool = "pytest" /\ kind = "pytest" ->
            <<CIError("pytest", "critical", "",
                      "Test failed: test_foo - AssertionError: bad")>>
      [] OTHER -> <<>>

\* re.finditer over the content: the matches in text order.
ParseWith(tool, content) ==
    Flatten([i \in 1..Len(content) |-> LineFindings(tool, content[i])])

(***************************************************************************)
(* _parse_stylelint: the block after the first "--- stylelint ---" up to   *)
(* the next "--- <word> ---" or the end of the text, with the ANSI escape  *)
(* sequences removed, matched line by line.                                *)
(***************************************************************************)
\* ansi_escape.sub("", text) on the text of one line.
AnsiStrip(kind) ==
    CASE kind = "slAnsi" -> "slPlain"
      [] kind = "ruffAnsi" -> "ruffE"
      [] OTHER -> kind

\* The lines the stylelint pattern matches: group 3 (message), group 4 (rule).
StylelintLines == {"slPlain", "slRuleInvalid", "slRuleError", "slMsgInvalid"}

StylelintMessage(kind) ==
    CASE kind = "slRuleError" -> "Unknown word"
      [] kind = "slMsgInvalid" -> "Invalid hex color"
      [] OTHER -> "Expected lowercase"

StylelintRule(kind) ==
    CASE kind = "slRuleInvalid" -> "color-no-invalid-hex"
      [] kind = "slRuleError" -> "CssSyntaxError"
      [] OTHER -> "color-hex-case"

\* `word in text.lower()` for the messages and rules above.
InLower(word, text) ==
    <<word, text>> \in {<<"invalid", "color-no-invalid-hex">>,
                        <<"error", "CssSyntaxError">>,
                        <<"invalid", "Invalid hex color">>}

\* Mutant of StylelintSeverity: the rule is searched for all three words.
StylelintSeverity_RuleAnyWord(message, rule) ==
    IF \E x \in {"invalid", "error", "fail"} : InLower(x, rule) \/ InLower(x, message)
    THEN "critical"
    ELSE "warning"

\* if "error" in rule.lower() or any(x in message.lower() for x in [...])
StylelintSeverity(message, rule) ==
    IF \/ InLower("error", rule)
       \/ \E x \in {"invalid", "error", "fail"} : InLower(x, message)
    THEN "critical"
    ELSE "warning"

StylelintFinding(kind) ==
    IF kind \in StylelintLines
    THEN <<CIError("stylelint",
                   StylelintSeverity(StylelintMessage(kind), StylelintRule(kind)),
                   StylelintRule(kind), StylelintMessage(kind))>>
    ELSE <<>>

\* The lines of the stylelint block: after the first header, before the next.
StylelintBlock(content) ==
    LET headers == {i \in 1..Len(content) : content[i] = "slHdr"}
        first == CHOOSE i \in headers : \A j \in headers : i <= j
        later == {i \in headers : i > first}
        next == IF later = {} THEN Len(content) + 1
                ELSE CHOOSE i \in later : \A j \in later : i <= j
    IN  IF headers = {} THEN {} ELSE (first + 1)..(next - 1)

StylelintAt(content, i) ==
    IF i \in StylelintBlock(content)
    THEN StylelintFinding(AnsiStrip(content[i]))
    ELSE <<>>

(***************************************************************************)
(* _parse_build_errors: every "Error:" / "ERROR:" of the text, unless one  *)
(* of five tool names stands in the 50 characters before it.  Positions    *)
(* are counted in characters of the text: TextLen is the length of a       *)
(* line with its "\n", ErrorMarkAt the offset of the mark in the line (-1  *)
(* when it has none), ToolNameSpans the [start, end) offsets of the tool   *)
(* names in it, BuildMessage the rest of the line after the mark.          *)
(***************************************************************************)
BuildContextChars == 50

TextLen(kind) ==
    CASE kind = "plain" -> 3
      [] kind = "plainCRLF" -> 3
      [] kind = "ruffE" -> 33
      [] kind = "ruffW" -> 39
      [] kind = "black" -> 24
      [] kind = "isort" -> 65
      [] kind = "pytest" -> 55
      [] kind = "build" -> 20
      [] kind = "slHdr" -> 18
      [] kind = "slPlain" -> 45
      [] kind = "slRuleInvalid" -> 51
      [] kind = "slRuleError" -> 39
      [] kind = "slMsgInvalid" -> 44
      [] kind = "slAnsi" -> 64
      [] kind = "ruffAnsi" -> 79

ErrorMarkAt(kind) ==
    CASE kind = "isort" -> 0
      [] kind = "build" -> 0
      [] kind = "pytest" -> 44
      [] OTHER -> -1

ToolNameSpans(kind) == IF kind = "slHdr" THEN {<<4, 13>>} ELSE {}

BuildMessage(kind) ==
    CASE kind = "isort" -> "src/a.py Imports are incorrectly sorted and/or formatted."
      [] kind = "pytest" -> "bad"
      [] OTHER -> "build failed"

RECURSIVE LineStart(_, _)
LineStart(content, i) ==
    IF i <= 1 THEN 0 ELSE LineStart(content, i - 1) + TextLen(content[i - 1])

\* any(tool in content[max(0, match.start() - 50) : match.start()] ...)
ToolNameBefore(content, i) ==
    LET start == LineStart(content, i) + ErrorMarkAt(content[i])
        from == Max(0, start - BuildContextChars)
    IN  \E j \in 1..i : \E span \in ToolNameSpans(content[j]) :
            /\ LineStart(content, j) + span[1] >= from
            /\ LineStart(content, j) + span[2] <= start

BuildFinding(content, i) ==
    IF ErrorMarkAt(content[i]) >= 0 /\ ~ToolNameBefore(content, i)
    THEN <<CIError("build", "critical", "", BuildMessage(content[i]))>>
    ELSE <<>>

parse_sqlfluff(content) == ParseWith("sqlfluff", content)
parse_stylelint(content) ==
    Flatten([i \in 1..Len(content) |-> StylelintAt(content, i)])
parse_markdownlint(content) == ParseWith("markdownlint", content)
parse_commitlint(content) == ParseWith("commitlint", content)
parse_prettier(content) == ParseWith("prettier", content)
parse_black(content) == ParseWith("black", content)
parse_isort(content) == ParseWith("isort", content)
parse_ruff(content) == ParseWith("ruff", content)
parse_eslint(content) == ParseWith("eslint", content)
parse_mypy(content) == ParseWith("mypy", content)
parse_pytest(content) == ParseWith("pytest", content)
parse_build_errors(content) ==
    Flatten([i \in 1..Len(content) |-> BuildFinding(content, i)])

\* Mutant of parse_job_log: the Findings come in the order of the lines.
parse_job_log_TextOrder(log) ==
    LET content == log.lines
    IN  Flatten([i \in 1..Len(content) |->
            StylelintAt(content, i)
            \o LineFindings("black", content[i]) \o LineFindings("isort", content[i])
            \o LineFindings("ruff", content[i]) \o LineFindings("pytest", content[i])
            \o BuildFinding(content, i)])

\* The twelve parsers over the content read (lines 210-223).
parse_content(content) ==
    parse_sqlfluff(content) \o parse_stylelint(content)
    \o parse_markdownlint(content) \o parse_commitlint(content)
    \o parse_prettier(content) \o parse_black(content)
    \o parse_isort(content) \o parse_ruff(content)
    \o parse_eslint(content) \o parse_mypy(content)
    \o parse_pytest(content) \o parse_build_errors(content)

\* Mutant of parse_job_log: the content is parsed whether or not the read
\* succeeded.
parse_job_log_ReadAnyway(log) == parse_content(log.lines)

\* _parse_job_log, lines 199-223: a log that cannot be read gives no Finding
\* (the except of lines 206-208 returns the empty list).
parse_job_log(log) ==
    IF log.state = "unreadable" THEN <<>> ELSE parse_content(log.lines)

(***************************************************************************)
(* Job discovery (CIOutputParserTool._run lines 88-99, _discover_jobs).    *)
(***************************************************************************)
JobEntry(name, folder, conclusion) ==
    [job_name |-> name, job_folder |-> folder, conclusion |-> conclusion]

LogExists(fs_root, fs_logs, folder) ==
    fs_root /\ folder \in DOMAIN fs_logs
            /\ fs_logs[folder].state \in {"file", "unreadable"}

\* Mutant of discover_jobs: hidden subdirectories are scanned like the others.
discover_jobs_WithHidden(fs_root, fs_logs, order) ==
    IF ~fs_root THEN <<>>
    ELSE Flatten([i \in 1..Len(order) |->
            IF LogExists(fs_root, fs_logs, order[i])
            THEN <<[job_name |-> order[i], job_folder |-> order[i],
                    conclusion |-> "unknown"]>>
            ELSE <<>>])

\* for job_dir in logs_path.iterdir():
\*     if job_dir.is_dir() and not job_dir.name.startswith("."):
\*         if (job_dir / "log.txt").exists(): ...
discover_jobs(fs_root, fs_logs, order) ==
    IF ~fs_root THEN <<>>
    ELSE Flatten([i \in 1..Len(order) |->
            IF ~StartsWithDot(order[i]) /\ LogExists(fs_root, fs_logs, order[i])
            THEN <<JobEntry(order[i], order[i], "unknown")>>
            ELSE <<>>])

LoadJobs(fs_root, fs_index, fs_logs, order) ==
    IF fs_root /\ fs_index.state # "absent"
    THEN (IF fs_index.state = "corrupt" THEN <<>> ELSE fs_index.jobs)
    ELSE discover_jobs(fs_root, fs_logs, order)

(***************************************************************************)
(* Aggregation (CIOutputParserTool._run lines 101-160).                    *)
(***************************************************************************)
\* Mutant of EffectiveResult: the environment variable is never consulted.
EffectiveResult_NoEnv(core_ci_result, environ) ==
    IF core_ci_result = "" THEN "success" ELSE core_ci_result

\* if not core_ci_result: core_ci_result = os.getenv("CORE_CI_RESULT", "success")
EffectiveResult(core_ci_result, environ) ==
    IF core_ci_result = ""
    THEN (IF environ.set THEN environ.value ELSE "success")
    ELSE core_ci_result

\* The per-job loop: the Findings of each job whose log.txt exists.
JobErrors(fs_root, fs_logs, job) ==
    IF LogExists(fs_root, fs_logs, job.job_folder)
    THEN parse_job_log(fs_logs[job.job_folder])
    ELSE <<>>

AllErrors(fs_root, fs_logs, jobs) ==
    Flatten([i \in 1..Len(jobs) |-> JobErrors(fs_root, fs_logs, jobs[i])])

\* Mutant of JobsAnalyzed: the loop ends at the first job without a log.
JobsAnalyzed_StopAtMissing(fs_root, fs_logs, jobs) ==
    LET missing == {i \in 1..Len(jobs) : ~LogExists(fs_root, fs_logs, jobs[i].job_folder)}
        stop == IF missing = {} THEN Len(jobs) + 1
                ELSE CHOOSE i \in missing : \A j \in missing : i <= j
    IN  [i \in 1..(stop - 1) |->
            [name |-> jobs[i].job_name,
             conclusion |-> jobs[i].conclusion,
             errors_found |-> Len(JobErrors(fs_root, fs_logs, jobs[i])),
             log_size |-> fs_logs[jobs[i].job_folder].size]]

JobsAnalyzed(fs_root, fs_logs, jobs) ==
    Flatten([i \in 1..Len(jobs) |->
        IF LogExists(fs_root, fs_logs, jobs[i].job_folder)
        THEN <<[name |-> jobs[i].job_name,
                conclusion |-> jobs[i].conclusion,
                errors_found |-> Len(JobErrors(fs_root, fs_logs, jobs[i])),
                log_size |-> fs_logs[jobs[i].job_folder].size]>>
        ELSE <<>>])

\* The severity buckets (lines 122-128).
CriticalBucket(errors) == SelectSeq(errors, LAMBDA e : e.severity = "critical")
\* Mutant of WarningBucket: everything that is not critical is a warning.
WarningBucket_NotCritical(errors) ==
    SelectSeq(errors, LAMBDA e : e.severity # "critical")

WarningBucket(errors) ==
    SelectSeq(errors, LAMBDA e : e.severity = "warning")
InfoBucket(errors) ==
    SelectSeq(errors, LAMBDA e : e.severity # "critical" /\ e.severity # "warning")

\* Mutant of ChecksPerformed: the tools are listed without the set().
ChecksPerformed_NoSet(errors) == {[i \in 1..Len(errors) |-> errors[i].tool]}

\* checks_performed = list(set(e.tool for e in all_errors)): the lists the
\* expression can yield, the iteration order of a set of strings being any.
ChecksPerformed(errors) ==
    LET tools == {errors[i].tool : i \in 1..Len(errors)}
    IN  {checks \in [1..Cardinality(tools) -> tools] :
            \A t \in tools : \E i \in 1..Cardinality(tools) : checks[i] = t}

\* Mutant of DecideStatus: a "success" baseline wins before the critical
\* count is looked at.
DecideStatus_BaselineFirst(core, total_errors, total_warnings, n_jobs) ==
    IF core = "success"
    THEN [status |-> core, passed |-> TRUE,
          summary |-> <<"All CI checks passed", n_jobs>>]
    ELSE IF total_errors > 0
    THEN [status |-> "failure", passed |-> FALSE,
          summary |-> <<"CI failed", total_errors, total_warnings>>]
    ELSE IF total_warnings > 0
    THEN [status |-> "warning", passed |-> FALSE,
          summary |-> <<"CI passed with warnings", total_warnings>>]
    ELSE [status |-> core, passed |-> FALSE,
          summary |-> <<"CI status", core>>]

\* Mutant of DecideStatus: the warning branch marks the run as passed.
DecideStatus_WarningPasses(core, total_errors, total_warnings, n_jobs) ==
    IF core = "success" /\ total_errors = 0
    THEN [status |-> core, passed |-> (core = "success"),
          summary |-> <<"All CI checks passed", n_jobs>>]
    ELSE IF total_errors > 0
    THEN [status |-> "failure", passed |-> FALSE,
          summary |-> <<"CI failed", total_errors, total_warnings>>]
    ELSE IF total_warnings > 0
    THEN [status |-> "warning", passed |-> TRUE,
          summary |-> <<"CI passed with warnings", total_warnings>>]
    ELSE [status |-> core, passed |-> (core = "success"),
          summary |-> <<"CI status", core>>]

\* The status policy (lines 76-79 and 132-152).
DecideStatus(core, total_errors, total_warnings, n_jobs) ==
    IF core = "success" /\ total_errors = 0
    THEN [status |-> core, passed |-> (core = "success"),
          summary |-> <<"All CI checks passed", n_jobs>>]
    ELSE IF total_errors > 0
    THEN [status |-> "failure", passed |-> FALSE,
          summary |-> <<"CI failed", total_errors, total_warnings>>]
    ELSE IF total_warnings > 0
    THEN [status |-> "warning", passed |-> (core = "success"),
          summary |-> <<"CI passed with warnings", total_warnings>>]
    ELSE [status |-> core, passed |-> (core = "success"),
          summary |-> <<"CI status", core>>]

\* tool_counts: a dict in insertion order, kept as a sequence of
\* [tool, count] in the order of each tool's first Finding.
RECURSIVE ToolOrder(_, _)
ToolOrder(errors, seen) ==
    IF errors = <<>> THEN <<>>
    ELSE IF Head(errors).tool \in seen THEN ToolOrder(Tail(errors), seen)
    ELSE <<Head(errors).tool>> \o ToolOrder(Tail(errors), seen \cup {Head(errors).tool})

\* Mutant of CountTool: only the critical Findings of the tool are counted.
CountTool_CriticalOnly(errors, tool) ==
    Len(SelectSeq(errors, LAMBDA e : e.tool = tool /\ e.severity = "critical"))

CountTool(errors, tool) == Len(SelectSeq(errors, LAMBDA e : e.tool = tool))

ToolCounts(errors) ==
    LET order == ToolOrder(errors, {})
    IN  [i \in 1..Len(order) |->
            [tool |-> order[i], count |-> CountTool(errors, order[i])]]

\* Mutant of WorstTool: among equal counts the key inserted last wins.
WorstTool_LastMax(counts) ==
    LET best == CHOOSE i \in 1..Len(counts) :
                  /\ \A j \in 1..Len(counts) : counts[j].count <= counts[i].count
                  /\ \A j \in (i + 1)..Len(counts) : counts[j].count < counts[i].count
    IN  counts[best]

\* max(tool_counts, key=tool_counts.get): the first key, in insertion
\* order, holding the largest count.
WorstTool(counts) ==
    LET best == CHOOSE i \in 1..Len(counts) :
                  /\ \A j \in 1..Len(counts) : counts[j].count <= counts[i].count
                  /\ \A j \in 1..(i - 1) : counts[j].count < counts[i].count
    IN  counts[best]

generate_issue_analysis(errors) ==
    IF errors = <<>>
    THEN [root_cause |-> <<"No issues detected", 0>>,
          fix_applied |-> -1,
          recommendation |-> <<0, 0>>,
          tool_breakdown |-> <<>>,
          has_breakdown |-> FALSE]
    ELSE [root_cause |-> <<WorstTool(ToolCounts(errors)).tool,
                           WorstTool(ToolCounts(errors)).count>>,
          fix_applied |-> Len(SelectSeq(errors,
                              LAMBDA e : e.tool \in {"prettier", "black", "isort"})),
          recommendation |-> <<Len(CriticalBucket(errors)), Len(WarningBucket(errors))>>,
          tool_breakdown |-> ToolCounts(errors),
          has_breakdown |-> TRUE]

(***************************************************************************)
(* Regular expressions.  A pattern is one of a few regex sources;          *)
(* re.compile raises re.error on "(" and accepts the others;               *)
(* regex.search(line) with re.IGNORECASE is the table below, each row the  *)
(* pattern applied to the text of the line kind.                           *)
(***************************************************************************)
Patterns == {"py", "reformat", "("}

CompileOk(pattern) == pattern # "("

LineMatches(pattern, kind) ==
    CASE pattern = "py" -> kind \in {"ruffE", "ruffW", "black"}
      [] pattern = "reformat" -> kind = "black"
      [] OTHER -> FALSE

(***************************************************************************)
(* SearchLogTool._run (ci_tools.py lines 190-241).                         *)
(***************************************************************************)
\* Mutant of SearchStart: the start index is not clamped at the file start.
SearchStart_Unclamped(i, context_lines) == i - context_lines

\* start = max(0, i - context_lines), i the 0-based index of the line
SearchStart(i, context_lines) == Max(0, i - context_lines)

\* end = min(len(lines), i + context_lines + 1)
SearchEnd(i, context_lines, n) == Min(n, i + context_lines + 1)

SearchMatch(lines, i, context_lines) ==
    [line_number |-> i + 1,
     match |-> lines[i + 1],
     context |-> PySlice(lines, SearchStart(i, context_lines),
                         SearchEnd(i, context_lines, Len(lines)))]

\* The loop of lines 212-225 from 0-based index i on, `found` being
\* len(matches) so far: append, then break once len(matches) >= max_matches.
RECURSIVE SearchLoop(_, _, _, _, _, _)
SearchLoop(lines, pattern, context_lines, max_matches, i, found) ==
    IF i >= Len(lines) THEN <<>>
    ELSE IF LineMatches(pattern, lines[i + 1])
    THEN <<SearchMatch(lines, i, context_lines)>>
         \o (IF found + 1 >= max_matches THEN <<>>
             ELSE SearchLoop(lines, pattern, context_lines, max_matches,
                             i + 1, found + 1))
    ELSE SearchLoop(lines, pattern, context_lines, max_matches, i + 1, found)

SearchLogRun(fs_root, fs_logs, folder, pattern, context_lines, max_matches) ==
    IF ~LogExists(fs_root, fs_logs, folder)
    THEN [kind |-> "NoLog", matches |-> <<>>, reached_max |-> FALSE]
    ELSE IF ~CompileOk(pattern)
    THEN [kind |-> "InvalidPattern", matches |-> <<>>, reached_max |-> FALSE]
    ELSE LET matches == SearchLoop(fs_logs[folder].lines, pattern,
                                   context_lines, max_matches, 0, 0)
         IN  IF matches = <<>>
             THEN [kind |-> "NoMatches", matches |-> <<>>, reached_max |-> FALSE]
             ELSE [kind |-> "Matches", matches |-> matches,
                   reached_max |-> (Len(matches) = max_matches)]

(***************************************************************************)
(* CIOutputParserTool._search_logs (ci_output_parser_tool.py 601-639).     *)
(***************************************************************************)
\* The results of one pattern on one log (lines 621-635).
PatternResults(job, lines, pattern) ==
    Flatten([i \in 1..Len(lines) |->
        IF LineMatches(pattern, lines[i])
        THEN <<[job |-> job,
                pattern |-> pattern,
                line_number |-> i,
                match |-> lines[i],
                context |-> PySlice(lines, Max(0, (i - 1) - 2),
                                    Min(Len(lines), (i - 1) + 3))]>>
        ELSE <<>>])

\* Mutant of SearchOneLog: the loops are nested the other way round (lines
\* outside, patterns inside).
SearchOneLog_LineMajor(job, lines, patterns) ==
    Flatten([i \in 1..Len(lines) |->
        Flatten([p \in 1..Len(patterns) |->
            IF CompileOk(patterns[p]) /\ LineMatches(patterns[p], lines[i])
            THEN <<[job |-> job,
                    pattern |-> patterns[p],
                    line_number |-> i,
                    match |-> lines[i],
                    context |-> PySlice(lines, Max(0, (i - 1) - 2),
                                        Min(Len(lines), (i - 1) + 3))]>>
            ELSE <<>>])])

\* The pattern loop inside the try block: re.compile raising re.error
\* leaves the loop, the except clause logs a warning, and the results
\* appended so far stay in the list.
RECURSIVE SearchOneLog(_, _, _)
SearchOneLog(job, lines, patterns) ==
    IF patterns = <<>> THEN <<>>
    ELSE IF ~CompileOk(Head(patterns)) THEN <<>>
    ELSE PatternResults(job, lines, Head(patterns))
         \o SearchOneLog(job, lines, Tail(patterns))

\* The loop over logs_path.iterdir(), for an existing results root.  A log
\* that cannot be read is skipped by the except of lines 636-637.
search_logs(fs_logs, order, patterns) ==
    Flatten([d \in 1..Len(order) |->
        IF fs_logs[order[d]].state = "file"
        THEN SearchOneLog(order[d], fs_logs[order[d]].lines, patterns)
        ELSE <<>>])

(***************************************************************************)
(* ReadFullLogTool._run (ci_tools.py lines 265-308).  max_lines is None    *)
(* (given = FALSE) or an integer.                                          *)
(***************************************************************************)
\* size_kb > MEDIUM_LOG_THRESHOLD and max_lines is None, size_kb = st_size / 1024
TooLargeCheck(size, given) == size > MEDIUM_LOG_THRESHOLD * 1024 /\ ~given

\* `if max_lines:` -- None and 0 are both false
MaxLinesTruthy(given, max_lines) == given /\ max_lines # 0

\* for i, line in enumerate(f): if i >= max_lines: break
FirstLines(lines, max_lines) == SubSeq(lines, 1, Min(Len(lines), Max(0, max_lines)))

(***************************************************************************)
(* with open(log_file) as f: the file is opened in text mode with the      *)
(* default newline handling, so a line ending "\r\n" is handed to the      *)
(* program as ending "\n".  The kind plainCRLF stands for the line         *)
(*   ok<CR><LF>                                                            *)
(* and plain for the same text ending in <LF> alone.                       *)
(***************************************************************************)
UniversalNewline(kind) == IF kind = "plainCRLF" THEN "plain" ELSE kind

\* Mutant of TextRead: the last line of the file is not delivered.
TextRead_DropLast(lines) ==
    [i \in 1..(Len(lines) - 1) |-> UniversalNewline(lines[i])]

\* What iterating or read()ing the text-mode file yields.
TextRead(lines) == [i \in 1..Len(lines) |-> UniversalNewline(lines[i])]

\* The returned text is a header, the content between two fence lines, and
\* under truncation a notice; `content` is what stands between the fences.
ReadFullLogRun(fs_root, fs_logs, folder, given, max_lines) ==
    IF ~LogExists(fs_root, fs_logs, folder)
    THEN [kind |-> "NoLog", content |-> <<>>, truncated |-> FALSE]
    ELSE IF TooLargeCheck(fs_logs[folder].size, given)
    THEN [kind |-> "TooLarge", content |-> <<>>, truncated |-> FALSE]
    ELSE IF MaxLinesTruthy(given, max_lines)
    THEN [kind |-> "Content",
          content |-> FirstLines(TextRead(fs_logs[folder].lines), max_lines),
          truncated |-> TRUE]
    ELSE [kind |-> "Content",
          content |-> TextRead(fs_logs[folder].lines),
          truncated |-> FALSE]

(***************************************************************************)
(* CIOutputParserTool._run as a whole.                                     *)
(***************************************************************************)
BuildReport(fs_root, fs_index, fs_logs, order, environ, core_ci_result, patterns, checks) ==
    LET core == EffectiveResult(core_ci_result, environ)
        jobs == LoadJobs(fs_root, fs_index, fs_logs, order)
        all_errors == AllErrors(fs_root, fs_logs, jobs)
        analyzed == JobsAnalyzed(fs_root, fs_logs, jobs)
        critical == CriticalBucket(all_errors)
        warnings == WarningBucket(all_errors)
        decided == DecideStatus(core, Len(critical), Len(warnings), Len(analyzed))
    IN  [status |-> decided.status,
         passed |-> decided.passed,
         summary |-> decided.summary,
         checks_performed |-> checks,
         critical_errors |-> critical,
         warnings |-> warnings,
         info |-> InfoBucket(all_errors),
         jobs_analyzed |-> analyzed,
         issue_analysis |-> generate_issue_analysis(all_errors),
         has_search_results |-> (patterns # <<>>),
         search_results |-> IF patterns # <<>> /\ fs_root
                            THEN search_logs(fs_logs, order, patterns)
                            ELSE <<>>]

\* `if search_patterns:` calls _search_logs, whose logs_path.iterdir()
\* raises FileNotFoundError when the results root does not exist.
ParserRun(fs_root, fs_index, fs_logs, order, environ, core_ci_result, patterns, checks) ==
    IF patterns # <<>> /\ ~fs_root
    THEN [kind |-> "raise", exc |-> "FileNotFoundError"]
    ELSE [kind |-> "report",
          report |-> BuildReport(fs_root, fs_index, fs_logs, order, environ,
                                 core_ci_result, patterns, checks)]

(***************************************************************************)
(* Actions: one per tool call.  Processing is synchronous: a call runs to  *)
(* completion and its result is handed to the caller before the next call  *)
(* starts.  The file system is an input and is never written by the tools. *)
(***************************************************************************)
NoCall == [tool |-> "none"]
NoResult == [kind |-> "none"]

RunParser(core_ci_result, patterns) ==
    /\ call = NoCall
    /\ call' = [tool |-> "CIOutputParserTool",
                core_ci_result |-> core_ci_result,
                search_patterns |-> patterns]
    /\ \E checks \in ChecksPerformed(
                        AllErrors(root_exists, logs,
                                  LoadJobs(root_exists, job_index, logs, dir_order))) :
          result' = ParserRun(root_exists, job_index, logs, dir_order, env,
                              core_ci_result, patterns, checks)
    /\ UNCHANGED ciFrame

SearchLog(folder, pattern, context_lines, max_matches) ==
    /\ call = NoCall
    /\ call' = [tool |-> "SearchLogTool",
                folder_name |-> folder,
                pattern |-> pattern,
                context_lines |-> context_lines,
                max_matches |-> max_matches]
    /\ result' = SearchLogRun(root_exists, logs, folder, pattern,
                              context_lines, max_matches)
    /\ UNCHANGED ciFrame

\* The caller takes the returned value (or the exception).
TakeResult ==
    /\ call # NoCall
    /\ call' = NoCall
    /\ result' = NoResult
    /\ UNCHANGED ciFrame

ReadFullLog(folder, given, max_lines) ==
    /\ call = NoCall
    /\ call' = [tool |-> "ReadFullLogTool",
                folder_name |-> folder,
                max_lines_given |-> given,
                max_lines |-> max_lines]
    /\ result' = ReadFullLogRun(root_exists, logs, folder, given, max_lines)
    /\ UNCHANGED ciFrame

\* _parse_job_log: a log that cannot be opened yields no Findings.
ParseJobLogRun(fs_root, fs_logs, folder) ==
    IF LogExists(fs_root, fs_logs, folder)
    THEN parse_job_log(fs_logs[folder])
    ELSE <<>>

\* One call of _parse_job_log (run = 1), or a second call on the same log
\* while the Findings of the first are still at hand (run = 2).
ParseJobLog(folder) ==
    /\ \/ call = NoCall
       \/ /\ call.tool = "_parse_job_log"
          /\ call.folder_name = folder
          /\ call.run = 1
    /\ call' = [tool |-> "_parse_job_log",
                folder_name |-> folder,
                run |-> IF call = NoCall THEN 1 ELSE 2]
    /\ result' = [kind |-> "findings",
                  findings |-> ParseJobLogRun(root_exists, logs, folder)]
    /\ UNCHANGED ciFrame

(***************************************************************************)
(* WorkspaceTool (workspace_tool.py).  A text is a sequence of runs         *)
(* [ch, n]: n times the character ch, with no empty run and no two          *)
(* neighbouring runs of the same character, so that equal strings are equal *)
(* sequences.  The characters are "x" and "y" (ASCII letters), "CR" and     *)
(* "LF" (carriage return and line feed) and "euro" (U+20AC, three bytes in  *)
(* UTF-8).  Files are read and written in text mode as UTF-8.               *)
(***************************************************************************)
MAX_FILE_SIZE == 102400
TRUNCATE_CONTEXT_SIZE == 30720

Run(ch, n) == [ch |-> ch, n |-> n]
EmptyText == <<>>

\* Bytes of one character in the file.
Width(ch) == IF ch = "euro" THEN 3 ELSE 1

RECURSIVE Chars(_)
\* len(text): the number of characters.
Chars(text) ==
    IF text = <<>> THEN 0 ELSE Head(text).n + Chars(Tail(text))

RECURSIVE Size(_)
\* st_size of a file holding the text: the number of bytes.
Size(text) ==
    IF text = <<>> THEN 0
    ELSE Head(text).n * Width(Head(text).ch) + Size(Tail(text))

\* a + b for two strings.
Join(a, b) ==
    IF a # <<>> /\ b # <<>> /\ a[Len(a)].ch = Head(b).ch
    THEN SubSeq(a, 1, Len(a) - 1)
             \o <<Run(Head(b).ch, a[Len(a)].n + Head(b).n)>> \o Tail(b)
    ELSE a \o b

RECURSIVE Take(_, _)
\* f.read(k) from the position of the text's start: at most k characters.
Take(text, k) ==
    IF k <= 0 \/ text = <<>> THEN <<>>
    ELSE IF Head(text).n <= k
         THEN <<Head(text)>> \o Take(Tail(text), k - Head(text).n)
         ELSE <<Run(Head(text).ch, k)>>

RECURSIVE OnCharBoundary(_, _)
\* The byte offset is the first byte of a character (or the end of the file).
OnCharBoundary(text, offset) ==
    IF offset <= 0 \/ text = <<>> THEN TRUE
    ELSE LET bytes == Head(text).n * Width(Head(text).ch)
         IN  IF offset >= bytes
             THEN OnCharBoundary(Tail(text), offset - bytes)
             ELSE offset % Width(Head(text).ch) = 0

RECURSIVE FromByte(_, _)
\* The text that starts at a byte offset which is a character boundary.
FromByte(text, offset) ==
    IF offset <= 0 \/ text = <<>> THEN text
    ELSE LET bytes == Head(text).n * Width(Head(text).ch)
         IN  IF offset >= bytes
             THEN FromByte(Tail(text), offset - bytes)
             ELSE <<Run(Head(text).ch,
                        Head(text).n - (offset \div Width(Head(text).ch)))>>
                      \o Tail(text)

RECURSIVE TranslateNewlines(_)
\* open(filepath, "r"): universal newlines, "\r\n" and "\r" are handed to the
\* program as "\n".
TranslateNewlines(text) ==
    IF text = <<>> THEN <<>>
    ELSE IF Head(text).ch = "CR"
         THEN IF Tail(text) # <<>> /\ Head(Tail(text)).ch = "LF"
              THEN Join(<<Run("LF", Head(text).n + Head(Tail(text)).n - 1)>>,
                        TranslateNewlines(Tail(Tail(text))))
              ELSE Join(<<Run("LF", Head(text).n)>>,
                        TranslateNewlines(Tail(text)))
         ELSE Join(<<Head(text)>>, TranslateNewlines(Tail(text)))

\* What the workspace directory holds under a name.
Absent == [state |-> "absent", text |-> EmptyText]
Directory == [state |-> "dir", text |-> EmptyText]
File(text) == [state |-> "file", text |-> text]

\* The string read() returns: head + notice + tail, the notice being the
\* "[... FILE TRUNCATED ...]" block with its three numbers; a string without
\* the block has shown = FALSE and an empty tail.
NoNotice == [shown |-> FALSE, original |-> 0, first |-> 0, last |-> 0, omitted |-> 0]
Notice(file_size, start_content, end_content) ==
    [shown |-> TRUE, original |-> file_size,
     first |-> Chars(start_content), last |-> Chars(end_content),
     omitted |-> file_size - (Chars(start_content) + Chars(end_content))]
Str(text) == [kind |-> "str", head |-> text, notice |-> NoNotice, tail |-> EmptyText]

\* WorkspaceTool.read, lines 123-145: the file is larger than MAX_FILE_SIZE.
\* f.read(n) counts characters, f.seek(n) and st_size count bytes; a seek
\* into the middle of a character makes the following read raise
\* UnicodeDecodeError, which line 147 turns into "".
read_truncated(text) ==
    LET file_size == Size(text)
        start_content == Take(TranslateNewlines(text), TRUNCATE_CONTEXT_SIZE)
        offset == IF file_size - TRUNCATE_CONTEXT_SIZE > 0
                  THEN file_size - TRUNCATE_CONTEXT_SIZE ELSE 0
        end_content ==
            Take(TranslateNewlines(FromByte(text, offset)), TRUNCATE_CONTEXT_SIZE)
    IN  IF ~OnCharBoundary(text, offset) THEN Str(EmptyText)
        ELSE [kind |-> "str", head |-> start_content,
              notice |-> Notice(file_size, start_content, end_content),
              tail |-> end_content]

\* WorkspaceTool.read, lines 96-149.  A directory exists and has a small
\* st_size; open() raises on it and the handler returns "".
read(ws, filename) ==
    IF ws[filename].state = "absent" THEN Str(EmptyText)
    ELSE IF ws[filename].state = "dir" THEN Str(EmptyText)
    ELSE IF Size(ws[filename].text) <= MAX_FILE_SIZE
         THEN Str(TranslateNewlines(ws[filename].text))
         ELSE read_truncated(ws[filename].text)

\* Mutant of write: a file that exists is left as it is.
write_KeepExisting(ws, filename, content) ==
    IF ws[filename].state # "absent" THEN ws
    ELSE [ws EXCEPT ![filename] = File(content)]

\* WorkspaceTool.write, lines 151-164: the workspace after the call.  open()
\* with "w" raises on a directory and nothing is written.
write(ws, filename, content) ==
    IF ws[filename].state = "dir" THEN ws
    ELSE [ws EXCEPT ![filename] = File(content)]

\* The message write() returns.
WriteMessage(ws, filename) ==
    [kind |-> "wrote", ok |-> ws[filename].state # "dir"]

\* Mutant of exists: files only.
exists_FilesOnly(ws, filename) == ws[filename].state = "file"

\* WorkspaceTool.exists, lines 166-171: Path.exists() of the name.
exists(ws, filename) == ws[filename].state # "absent"

\* _run("read", filename).
WsRead(filename) ==
    /\ call = NoCall
    /\ call' = [tool |-> "workspace", operation |-> "read", filename |-> filename]
    /\ result' = read(workspace, filename)
    /\ UNCHANGED <<wsVars, wsFrame>>

\* _run("exists", filename).
WsExists(filename) ==
    /\ call = NoCall
    /\ call' = [tool |-> "workspace", operation |-> "exists", filename |-> filename]
    /\ result' = [kind |-> "bool", value |-> exists(workspace, filename)]
    /\ UNCHANGED <<wsVars, wsFrame>>

\* _run("write", filename, content), lines 76-90; content is a string, or
\* None (given = FALSE), which is written as "".
WsWrite(filename, given, content) ==
    LET text == IF given THEN content ELSE EmptyText
    IN  /\ call = NoCall
        /\ call' = [tool |-> "workspace", operation |-> "write", filename |-> filename]
        /\ workspace' = write(workspace, filename, text)
        /\ result' = WriteMessage(workspace, filename)
        /\ ws_written' = [ws_written EXCEPT ![filename] = [ever |-> TRUE, last |-> text]]
        /\ UNCHANGED wsFrame

\* The names used in the workspace; "trace" is the directory the constructor
\* creates (lines 50-56).
WorkspaceNames == {"a.txt", "b.txt", "trace"}

\* The workspace after construction over a new directory.
WorkspaceFresh ==
    /\ workspace = [f \in WorkspaceNames |-> IF f = "trace" THEN Directory ELSE Absent]
    /\ ws_written = [f \in WorkspaceNames |-> [ever |-> FALSE, last |-> EmptyText]]

(***************************************************************************)
(* The global cost tracker (cost_tracker.py).  A CostTracker object is its  *)
(* identity (the number of the construction that made it) with the calls   *)
(* logged and the call counter; of a logged call the call number and the   *)
(* token counts are kept.                                                  *)
(***************************************************************************)
\* _global_tracker = None (line 368).
NoTracker == [id |-> 0, calls |-> <<>>, call_counter |-> 0]

\* CostTracker.__init__ (lines 47-58).
CostTracker(id) == [id |-> id, calls |-> <<>>, call_counter |-> 0]

\* Mutant of get_tracker: a new tracker at every call.
get_tracker_AlwaysNew(tracker, made) == CostTracker(made + 1)

\* get_tracker (lines 371-376): the global instance, made on first use.
get_tracker(tracker, made) ==
    IF tracker.id = 0 THEN CostTracker(made + 1) ELSE tracker

\* The number of trackers constructed after a get_tracker call.
MadeAfterGet(tracker, made) ==
    IF get_tracker(tracker, made).id > made THEN made + 1 ELSE made

\* CostTracker.log_api_call (lines 101-155).
log_api_call(tracker, tokens_in, tokens_out) ==
    [tracker EXCEPT
        !.call_counter = @ + 1,
        !.calls = Append(@, [call_number |-> tracker.call_counter + 1,
                             tokens_in |-> tokens_in,
                             tokens_out |-> tokens_out,
                             total_tokens |-> tokens_in + tokens_out])]

RECURSIVE sum(_)
\* The builtin sum over a list of numbers.
sum(numbers) == IF numbers = <<>> THEN 0 ELSE Head(numbers) + sum(Tail(numbers))

\* CostTracker.get_summary (lines 261-284) with the getters of lines 235-249.
get_summary(tracker) ==
    [kind |-> "summary",
     total_calls |-> Len(tracker.calls),
     total_tokens |-> sum([i \in 1..Len(tracker.calls) |-> tracker.calls[i].total_tokens]),
     total_tokens_in |-> sum([i \in 1..Len(tracker.calls) |-> tracker.calls[i].tokens_in]),
     total_tokens_out |-> sum([i \in 1..Len(tracker.calls) |-> tracker.calls[i].tokens_out])]

\* reset_tracker() (lines 379-383).
ResetTracker ==
    /\ call = NoCall
    /\ tracker_made < MaxTrackers
    /\ call' = [tool |-> "cost_tracker", operation |-> "reset_tracker"]
    /\ result' = [kind |-> "None"]
    /\ global_tracker' = CostTracker(tracker_made + 1)
    /\ tracker_made' = tracker_made + 1
    /\ tracker_log' = [logged |-> <<>>, seen |-> {}]
    /\ UNCHANGED trackerFrame

\* get_tracker().
GetTracker ==
    /\ call = NoCall
    /\ (global_tracker.id = 0 => tracker_made < MaxTrackers)
    /\ call' = [tool |-> "cost_tracker", operation |-> "get_tracker"]
    /\ global_tracker' = get_tracker(global_tracker, tracker_made)
    /\ tracker_made' = MadeAfterGet(global_tracker, tracker_made)
    /\ result' = [kind |-> "tracker", id |-> global_tracker'.id]
    /\ tracker_log' = [tracker_log EXCEPT !.seen = @ \cup {global_tracker'.id}]
    /\ UNCHANGED trackerFrame

\* get_tracker().log_api_call(model, tokens_in, tokens_out, cost, duration).
LogApiCall(tokens_in, tokens_out) ==
    /\ call = NoCall
    /\ (global_tracker.id = 0 => tracker_made < MaxTrackers)
    /\ Len(global_tracker.calls) < MaxCalls
    /\ call' = [tool |-> "cost_tracker", operation |-> "log_api_call"]
    /\ global_tracker' = log_api_call(get_tracker(global_tracker, tracker_made),
                                      tokens_in, tokens_out)
    /\ tracker_made' = MadeAfterGet(global_tracker, tracker_made)
    /\ result' = [kind |-> "None"]
    /\ tracker_log' = [logged |-> Append(tracker_log.logged,
                                         [tokens_in |-> tokens_in,
                                          tokens_out |-> tokens_out]),
                       seen |-> tracker_log.seen \cup {global_tracker'.id}]
    /\ UNCHANGED trackerFrame

\* get_tracker().get_summary().
GetSummary ==
    /\ call = NoCall
    /\ (global_tracker.id = 0 => tracker_made < MaxTrackers)
    /\ call' = [tool |-> "cost_tracker", operation |-> "get_summary"]
    /\ global_tracker' = get_tracker(global_tracker, tracker_made)
    /\ tracker_made' = MadeAfterGet(global_tracker, tracker_made)
    /\ result' = get_summary(global_tracker')
    /\ tracker_log' = [tracker_log EXCEPT !.seen = @ \cup {global_tracker'.id}]
    /\ UNCHANGED trackerFrame

\* The module as imported: no tracker yet.
TrackerFresh ==
    /\ global_tracker = NoTracker
    /\ tracker_made = 0
    /\ tracker_log = [logged |-> <<>>, seen |-> {}]

(***************************************************************************)
(* GlobalRateLimiter (utils/model_config.py lines 99-147).  Times are in    *)
(* tenths of a second.  Both methods run under self._lock, wait_if_needed  *)
(* sleeping with the lock held: a thread is idle or asleep inside          *)
(* wait_if_needed, and a method starts only while the lock is free.        *)
(***************************************************************************)
INITIAL_RPM_LIMIT == 60
\* The 60 seconds of `now - t < 60` and the 0.1 seconds added to the sleep.
WindowTicks == 600
SlackTicks == 1

Threads == {1, 2}

\* [t for t in self._request_times if now - t < 60]
Recent(request_times, time) ==
    SelectSeq(request_times, LAMBDA t : time - t < WindowTicks)

\* Mutant of NewLimit: the last limit set wins.
NewLimit_LastWins(rpm_limit, rpm) == rpm

\* min(self._rpm_limit, rpm) of set_limit.
NewLimit(rpm_limit, rpm) == IF rpm < rpm_limit THEN rpm ELSE rpm_limit

\* set_limit(rpm), lines 121-124.
SetLimit(thread, rpm) ==
    /\ threads[thread].pc = "idle"
    /\ limiter.lock = 0
    /\ limiter' = [limiter EXCEPT !.rpm_limit = NewLimit(limiter.rpm_limit, rpm)]
    /\ UNCHANGED <<now, threads, recorded, limiterFrame>>

\* wait_if_needed, lines 126-140, up to the sleep: the lock is taken, the
\* old requests are dropped, and either the request is recorded at once or
\* the thread goes to sleep until the oldest request kept is 60.1 s old.
WaitIfNeeded(thread) ==
    /\ threads[thread].pc = "idle"
    /\ limiter.lock = 0
    /\ Len(recorded) + Cardinality({t \in Threads : threads[t].pc = "asleep"})
           < MaxRequests
    /\ LET kept == Recent(limiter.request_times, now)
       IN  IF Len(kept) >= limiter.rpm_limit
           THEN /\ limiter' = [limiter EXCEPT !.request_times = kept, !.lock = thread]
                /\ threads' = [threads EXCEPT ![thread] =
                                  [pc |-> "asleep",
                                   wake |-> now + (WindowTicks - (now - kept[1])
                                                   + SlackTicks)]]
                /\ UNCHANGED recorded
           ELSE /\ limiter' = [limiter EXCEPT !.request_times = Append(kept, now)]
                /\ recorded' = Append(recorded, [time |-> now,
                                                  limit |-> limiter.rpm_limit])
                /\ UNCHANGED threads
    /\ UNCHANGED <<now, limiterFrame>>

\* wait_if_needed, lines 136-140, after the sleep: time.sleep returns at the
\* wake time or later, the old requests are dropped again, the request is
\* recorded and the lock released.
WakeUp(thread) ==
    /\ threads[thread].pc = "asleep"
    /\ LET woken == IF now < threads[thread].wake THEN threads[thread].wake ELSE now
           kept == Recent(limiter.request_times, woken)
       IN  /\ now' = woken
           /\ limiter' = [limiter EXCEPT !.request_times = Append(kept, woken),
                                         !.lock = 0]
           /\ recorded' = Append(recorded, [time |-> woken,
                                             limit |-> limiter.rpm_limit])
    /\ threads' = [threads EXCEPT ![thread] = [pc |-> "idle", wake |-> 0]]
    /\ UNCHANGED limiterFrame

\* Time passes.
Tick(d) ==
    /\ now + d <= MaxTime
    /\ now' = now + d
    /\ UNCHANGED <<limiter, threads, recorded, limiterFrame>>

\* _rate_limiter = GlobalRateLimiter() at import (line 147): __init__,
\* lines 113-119.
LimiterFresh ==
    /\ limiter = [rpm_limit |-> INITIAL_RPM_LIMIT, request_times |-> <<>>, lock |-> 0]
    /\ now = 0
    /\ threads = [t \in Threads |-> [pc |-> "idle", wake |-> 0]]
    /\ recorded = <<>>

(***************************************************************************)
(* main() (main.py lines 1028-1174): the router decision, the four         *)
(* workflow steps in program order, the final summary.  A crew is kept as  *)
(* the outcome of its run_* function: True, False, or an exception raised  *)
(* inside it, which the function catches and turns into False.  The        *)
(* "workflows" value of the router decision is a list of names, or null    *)
(* (None): router_decision.json is written by the router agent and         *)
(* run_router returns what it reads.                                       *)
(***************************************************************************)
WorkflowList(names) == [is_list |-> TRUE, names |-> names]
WorkflowsNone == [is_list |-> FALSE, names |-> <<>>]

\* The default of lines 168-172, 183-187 and 1048.
DefaultWorkflows == WorkflowList(<<"ci-log-analysis", "quick-review">>)

\* The steps of main in program order (lines 1053-1103).
WorkflowSteps == <<"ci-log-analysis", "quick-review", "full-review", "legal-review">>

\* What the router leaves: no usable router_decision.json (the crew raised,
\* the file is missing or is not a JSON object with a "workflows" key), or a
\* "workflows" value.
RouterFailed == [usable |-> FALSE, workflows |-> WorkflowsNone]
RouterDecision(workflows) == [usable |-> TRUE, workflows |-> workflows]

\* run_router and decision.get("workflows", [...]) (lines 1047-1048).
DecidedWorkflows(router) ==
    IF router.usable THEN router.workflows ELSE DefaultWorkflows

\* `name in workflows` for a list.
Selected(workflows, name) ==
    \E i \in 1..Len(workflows.names) : workflows.names[i] = name

\* Where main goes after the step-th workflow block, whatever the block did
\* (`if not success:` only logs a warning).
NextStep(step) ==
    IF step = Len(WorkflowSteps) THEN "summary" ELSE "workflow"

\* main() before the call: nothing decided, nothing executed.
MainStart(router, model_key_known) ==
    [router |-> router,
     model_key_known |-> model_key_known,
     pc |-> "router",
     step |-> 1,
     workflows |-> WorkflowsNone,
     workflows_executed |-> <<>>,
     workflow_success |-> <<>>,
     summary_ran |-> FALSE,
     summary_workflows |-> <<>>,
     exit_code |-> -1]

\* Lines 1040-1048: setup, run_router, decision.get.
RunRouter ==
    /\ main.pc = "router"
    /\ main' = [main EXCEPT !.workflows = DecidedWorkflows(main.router),
                            !.pc = "delay"]
    /\ UNCHANGED mainFrame

\* Line 1051: get_rate_limit_delay() raises ValueError for a MODEL_KEY that
\* is not in MODEL_REGISTRY; the except of line 1172 returns 1.
GetRateLimitDelay ==
    /\ main.pc = "delay"
    /\ main' = IF main.model_key_known
               THEN [main EXCEPT !.pc = "workflow"]
               ELSE [main EXCEPT !.pc = "done", !.exit_code = 1]
    /\ UNCHANGED mainFrame

\* A workflow block whose `in` test raises TypeError: workflows is None.
MembershipRaises ==
    /\ main.pc = "workflow"
    /\ ~main.workflows.is_list
    /\ main' = [main EXCEPT !.pc = "done", !.exit_code = 1]
    /\ UNCHANGED mainFrame

\* A workflow block whose workflow is selected: run_* returns success
\* (False also when the crew raised), the workflow is appended.
RunWorkflow(success) ==
    /\ main.pc = "workflow"
    /\ main.workflows.is_list
    /\ Selected(main.workflows, WorkflowSteps[main.step])
    /\ main' = [main EXCEPT
                  !.workflows_executed = Append(@, WorkflowSteps[main.step]),
                  !.workflow_success = Append(@, success),
                  !.pc = NextStep(main.step),
                  !.step = IF main.step < Len(WorkflowSteps) THEN @ + 1 ELSE @]
    /\ UNCHANGED mainFrame

\* A workflow block whose workflow is not selected.
SkipWorkflow ==
    /\ main.pc = "workflow"
    /\ main.workflows.is_list
    /\ ~Selected(main.workflows, WorkflowSteps[main.step])
    /\ main' = [main EXCEPT
                  !.pc = NextStep(main.step),
                  !.step = IF main.step < Len(WorkflowSteps) THEN @ + 1 ELSE @]
    /\ UNCHANGED mainFrame

\* Line 1106: run_final_summary(env_vars, workflows_executed); its result
\* only changes a log line.
RunFinalSummary ==
    /\ main.pc = "summary"
    /\ main' = [main EXCEPT !.summary_ran = TRUE,
                            !.summary_workflows = main.workflows_executed,
                            !.pc = "post"]
    /\ UNCHANGED mainFrame

\* Lines 1110-1170: the summary is read or rebuilt, posted, the trace
\* saved; return 0.
PostAndReturn ==
    /\ main.pc = "post"
    /\ main' = [main EXCEPT !.pc = "done", !.exit_code = 0]
    /\ UNCHANGED mainFrame

\* main() is not running.
MainIdle == main = MainStart(RouterFailed, TRUE)

\* The tools other than the CI log tools, as constructed.
OtherToolsFresh == WorkspaceFresh /\ TrackerFresh /\ LimiterFresh /\ MainIdle

(***************************************************************************)
(* Inputs.                                                                 *)
(***************************************************************************)
SeqsUpTo(S, n) == UNION {[1..m -> S] : m \in 0..n}

\* A nominal 40 bytes per line where the size is not what is examined.
NominalSize(lines) == 40 * Len(lines)

LogsOver(kinds) == {LogFile(l, NominalSize(l)) : l \in SeqsUpTo(kinds, MaxLogLen)}

\* The orders iterdir() can yield the existing subdirectories in.
DirOrders(fs_logs) ==
    LET dirs == {f \in DOMAIN fs_logs : fs_logs[f].state # "nodir"}
    IN  {o \in SeqsUpTo(DOMAIN fs_logs, Cardinality(DOMAIN fs_logs)) :
            /\ Len(o) = Cardinality(dirs)
            /\ {o[i] : i \in 1..Len(o)} = dirs}

Baselines == {"", "success", "failure", "cancelled"}

IndexChoices ==
    {NoIndex, Corrupt,
     JobIndex(<<JobEntry("lint", "lint", "success"), JobEntry("test", "test", "failure")>>)}

\* A missing results root: nothing below it exists.
InitNoRoot ==
    /\ root_exists = FALSE
    /\ job_index = NoIndex
    /\ logs = [f \in Folders |-> NoDir]
    /\ dir_order = <<>>

\* The parser over two job folders.
Init ==
    /\ call = NoCall
    /\ result = NoResult
    /\ OtherToolsFresh
    /\ env \in {NoEnv, EnvValue("failure")}
    /\ \/ InitNoRoot
       \/ /\ root_exists = TRUE
          /\ job_index \in IndexChoices
          /\ \E lint \in {NoLog} \cup LogsOver(LineKinds),
                test \in {NoDir, LogFile(<<"ruffW">>, 40),
                          LogFile(<<"ruffE", "black">>, 80)} :
                logs = [f \in Folders |-> IF f = "lint" THEN lint ELSE test]
          /\ dir_order \in DirOrders(logs)

Next ==
    \/ \E core \in Baselines : RunParser(core, <<>>)
    \/ TakeResult

Spec == Init /\ [][Next]_vars

(***************************************************************************)
(* The two searches over one results directory.                            *)
(***************************************************************************)
SearchKinds == {"ruffE", "black", "plain"}

\* A log with one more matching line than the default match cap.
LongLog ==
    LogFile([i \in 1..(DEFAULT_MAX_MATCHES + 1) |-> "ruffE"],
            40 * (DEFAULT_MAX_MATCHES + 1))

ContextArgs == 0..MaxContext \cup {DEFAULT_CONTEXT_LINES}
MatchArgs == 0..MaxMatchesArg \cup {DEFAULT_MAX_MATCHES}
PatternLists == SeqsUpTo(Patterns, MaxPatterns) \ {<<>>}

InitSearch ==
    /\ call = NoCall
    /\ result = NoResult
    /\ OtherToolsFresh
    /\ env = NoEnv
    /\ \/ InitNoRoot
       \/ /\ root_exists = TRUE
          /\ job_index = NoIndex
          /\ \E lint \in {NoLog, LongLog} \cup LogsOver(SearchKinds),
                test \in {NoLog, LogFile(<<"black", "ruffE">>, 80)} :
                logs = [f \in Folders |-> IF f = "lint" THEN lint ELSE test]
          /\ dir_order \in DirOrders(logs)

NextSearch ==
    \/ \E folder \in Folders, pattern \in Patterns,
          context_lines \in ContextArgs, max_matches \in MatchArgs :
          SearchLog(folder, pattern, context_lines, max_matches)
    \/ \E patterns \in PatternLists : RunParser("success", patterns)
    \/ TakeResult

SpecSearch == InitSearch /\ [][NextSearch]_vars

(***************************************************************************)
(* Reading one log of a given size.                                        *)
(***************************************************************************)
ReadKinds == {"ruffE", "plain", "plainCRLF"}

\* File sizes around the two thresholds.  An empty file has size 0.
LogSizes(lines) ==
    IF lines = <<>> THEN {0}
    ELSE {NominalSize(lines),
          SMALL_LOG_THRESHOLD * 1024 - 1, SMALL_LOG_THRESHOLD * 1024,
          MEDIUM_LOG_THRESHOLD * 1024 - 1, MEDIUM_LOG_THRESHOLD * 1024,
          MEDIUM_LOG_THRESHOLD * 1024 + 1}

InitRead ==
    /\ call = NoCall
    /\ result = NoResult
    /\ OtherToolsFresh
    /\ env = NoEnv
    /\ root_exists = TRUE
    /\ job_index = NoIndex
    /\ \E lines \in SeqsUpTo(ReadKinds, MaxLogLen) : \E size \in LogSizes(lines) :
          logs = [f \in Folders |-> IF f = "lint" THEN LogFile(lines, size) ELSE NoLog]
    /\ dir_order \in DirOrders(logs)

NextRead ==
    \/ \E folder \in Folders : ReadFullLog(folder, FALSE, 0)
    \/ \E folder \in Folders, max_lines \in 0..MaxLinesArg :
          ReadFullLog(folder, TRUE, max_lines)
    \/ TakeResult

SpecRead == InitRead /\ [][NextRead]_vars

(***************************************************************************)
(* Parsing one log.                                                        *)
(***************************************************************************)
ParseKinds ==
    {"plain", "ruffE", "isort", "pytest", "build", "ruffAnsi",
     "slHdr", "slPlain", "slRuleInvalid", "slRuleError", "slMsgInvalid", "slAnsi"}

InitParse ==
    /\ call = NoCall
    /\ result = NoResult
    /\ OtherToolsFresh
    /\ env = NoEnv
    /\ root_exists = TRUE
    /\ job_index = NoIndex
    /\ \E lines \in SeqsUpTo(ParseKinds, MaxLogLen) :
          logs = [f \in Folders |->
                    IF f = "lint" THEN LogFile(lines, NominalSize(lines)) ELSE NoDir]
    /\ dir_order \in DirOrders(logs)

NextParse ==
    \/ \E folder \in Folders : ParseJobLog(folder)
    \/ TakeResult

SpecParse == InitParse /\ [][NextParse]_vars

(***************************************************************************)
(* Job discovery over a results root with a hidden subdirectory.           *)
(***************************************************************************)
DiscoverIndexChoices ==
    {NoIndex, Corrupt,
     JobIndex(<<JobEntry("lint", "lint", "success"), JobEntry("test", "test", "failure")>>),
     JobIndex(<<JobEntry(".cache", ".cache", "success")>>)}

DiscoverDirs == {NoDir, NoLog, LogFile(<<"ruffE">>, 40)}

InitDiscover ==
    /\ call = NoCall
    /\ result = NoResult
    /\ OtherToolsFresh
    /\ env = NoEnv
    /\ root_exists = TRUE
    /\ job_index \in DiscoverIndexChoices
    /\ logs \in [Folders \cup HiddenFolders -> DiscoverDirs]
    /\ dir_order \in DirOrders(logs)

NextDiscover ==
    \/ \E core \in {"success", "failure"} : RunParser(core, <<>>)
    \/ TakeResult

SpecDiscover == InitDiscover /\ [][NextDiscover]_vars

(***************************************************************************)
(* Properties of the Report (checked under Spec).                          *)
(***************************************************************************)
IsReport == call.tool = "CIOutputParserTool" /\ result.kind = "report"

\* The Findings the parsers return over the jobs of the run, in order.
ParserFindings ==
    AllErrors(root_exists, logs, LoadJobs(root_exists, job_index, logs, dir_order))

Occurrences(seq, e) == Cardinality({i \in 1..Len(seq) : seq[i] = e})

CountSeverity(seq, severity) ==
    Cardinality({i \in 1..Len(seq) : seq[i].severity = severity})

\* C1: the three buckets together hold as many Findings as the parsers
\* returned over all analysed jobs, and every Finding occurs in the buckets
\* together exactly as often as the parsers returned it (none dropped, none
\* in two buckets).
C1_BucketsPartitionFindings ==
    IsReport =>
        LET r == result.report
            found == ParserFindings
        IN  /\ Len(r.critical_errors) + Len(r.warnings) + Len(r.info) = Len(found)
            /\ \A e \in {found[i] : i \in 1..Len(found)} :
                  Occurrences(r.critical_errors, e) + Occurrences(r.warnings, e)
                  + Occurrences(r.info, e)
                  = Occurrences(found, e)

\* C1 witness: a run over two jobs whose Findings fill all three buckets.
C1_Witness ==
    /\ IsReport
    /\ Len(result.report.jobs_analyzed) = 2
    /\ result.report.critical_errors # <<>>
    /\ result.report.warnings # <<>>
    /\ result.report.info # <<>>

\* C2: when the parsers return at least one critical Finding the Report has
\* status "failure" and passed = FALSE whatever the baseline, and
\* critical_errors holds the critical Findings and nothing else.
C2_CriticalOverridesBaseline ==
    IsReport =>
        LET r == result.report
            criticals == CountSeverity(ParserFindings, "critical")
        IN  criticals > 0 =>
            /\ r.status = "failure"
            /\ r.passed = FALSE
            /\ Len(r.critical_errors) = criticals
            /\ \A i \in 1..Len(r.critical_errors) :
                  r.critical_errors[i].severity = "critical"
            /\ CountSeverity(r.warnings, "critical") = 0
            /\ CountSeverity(r.info, "critical") = 0

\* C2 witness: baseline "success" and three critical ruff Findings.
C2_Witness ==
    /\ IsReport
    /\ call.core_ci_result = "success"
    /\ Len(result.report.critical_errors) = 3
    /\ \A i \in 1..3 : result.report.critical_errors[i].tool = "ruff"
    /\ result.report.status = "failure"

\* The status the four rules give for a baseline and Finding counts.
RuleStatus(baseline, criticals, warnings) ==
    IF baseline = "success" /\ criticals = 0 THEN "success"
    ELSE IF criticals > 0 THEN "failure"
    ELSE IF warnings > 0 THEN "warning"
    ELSE baseline

IsRead == call.tool = "ReadFullLogTool" /\ result.kind # "NoLog"

\* C4 as stated: a log of at least 200 KB (204800 bytes), exactly 200 KB
\* included, read without max_lines gives the TooLarge signal and none of
\* the log's content.
C4_Claim ==
    (/\ IsRead
     /\ ~call.max_lines_given
     /\ logs[call.folder_name].size >= MEDIUM_LOG_THRESHOLD * 1024)
    => (result.kind = "TooLarge" /\ result.content = <<>>)

\* C5 as stated: whenever max_lines is supplied, 0 included, the returned
\* content holds at most max_lines lines of the log.
C5_Claim ==
    (IsRead /\ call.max_lines_given) => Len(result.content) <= call.max_lines

(***************************************************************************)
(* Properties of the searches (checked under SpecSearch).                  *)
(***************************************************************************)
IsSearch == call.tool = "SearchLogTool" /\ result.kind # "NoLog"

\* The search results of the Report for one job, in the order returned.
JobResults(job) ==
    SelectSeq(result.report.search_results, LAMBDA r : r.job = job)

\* C6 as stated: SearchLogTool with max_matches = N, N >= 0, never returns
\* more than N matches.
C6_Claim ==
    IsSearch => Len(result.matches) <= call.max_matches

\* C7 as stated: both searches stop at a match cap: SearchLogTool returns at
\* most max_matches matches (stated here for max_matches >= 1), and the
\* search_patterns option returns, for one pattern on one job log, at most
\* the default cap of 50 matches however many lines match.
C7_Claim ==
    /\ (IsSearch /\ call.max_matches >= 1)
          => Len(result.matches) <= call.max_matches
    /\ (IsReport /\ Len(call.search_patterns) = 1)
          => \A job \in Folders : Len(JobResults(job)) <= DEFAULT_MAX_MATCHES

\* C8 as stated: an invalid regular expression gives the InvalidPattern
\* error and no matches: SearchLogTool returns the error and no match, and
\* a search_patterns list holding an invalid pattern yields no search
\* result for any pattern on that log.
C8_Claim ==
    /\ (IsSearch /\ ~CompileOk(call.pattern))
          => (result.kind = "InvalidPattern" /\ result.matches = <<>>)
    /\ (IsReport /\ \E i \in 1..Len(call.search_patterns) :
                        ~CompileOk(call.search_patterns[i]))
          => result.report.search_results = <<>>

\* Lines max(1, i - k) .. min(n, i + k) of a log, i counted from 1.
ContextBlock(lines, i, k) == SubSeq(lines, Max(1, i - k), Min(Len(lines), i + k))

\* C9: the context block of a match on line i of an n-line log is exactly
\* the lines max(1, i-k) .. min(n, i+k), with k = context_lines >= 0 for
\* SearchLogTool and the fixed k = 2 of the search_patterns option; it
\* holds the matched line, and matches on the first and the last line are
\* returned like any other.
C9_ContextClamped ==
    /\ IsSearch =>
          LET lines == logs[call.folder_name].lines
          IN  /\ result.kind \in {"InvalidPattern", "NoMatches", "Matches"}
              /\ \A j \in 1..Len(result.matches) :
                    LET m == result.matches[j]
                    IN  /\ m.line_number \in 1..Len(lines)
                        /\ m.match = lines[m.line_number]
                        /\ m.context
                             = ContextBlock(lines, m.line_number, call.context_lines)
                        /\ \E c \in 1..Len(m.context) : m.context[c] = m.match
              /\ (CompileOk(call.pattern) /\ call.max_matches >= Len(lines))
                    => \A i \in 1..Len(lines) :
                         LineMatches(call.pattern, lines[i])
                           => \E j \in 1..Len(result.matches) :
                                result.matches[j].line_number = i
    /\ IsReport =>
          \A j \in 1..Len(result.report.search_results) :
              LET m == result.report.search_results[j]
                  lines == logs[m.job].lines
              IN  /\ m.line_number \in 1..Len(lines)
                  /\ m.match = lines[m.line_number]
                  /\ m.context = ContextBlock(lines, m.line_number, 2)

\* C9 witness: with context_lines = 2 a match on the first line and a match
\* on the last line of a three-line log, each with the whole log as context,
\* and a match with context_lines = 0.
C9_Witness ==
    /\ IsSearch
    /\ call.context_lines = 2
    /\ Len(logs[call.folder_name].lines) = 3
    /\ Len(result.matches) = 2
    /\ result.matches[1].line_number = 1
    /\ result.matches[2].line_number = 3
    /\ Len(result.matches[1].context) = 3
    /\ Len(result.matches[2].context) = 3

StrictlyAscending(ms) ==
    \A a, b \in 1..Len(ms) : a < b => ms[a].line_number < ms[b].line_number

NeverDescending(ms) ==
    \A a, b \in 1..Len(ms) : a < b => ms[a].line_number <= ms[b].line_number

\* The places of ms where the line number does not go up.
Descents(ms) ==
    Cardinality({a \in 1..(Len(ms) - 1) : ms[a].line_number >= ms[a + 1].line_number})

Position(seq, x) == CHOOSE i \in 1..Len(seq) : seq[i] = x

Distinct(seq) == \A a, b \in 1..Len(seq) : a # b => seq[a] # seq[b]

\* C10 as stated: the matches returned for one job log are in ascending
\* line_number order (no match is followed by one of a lower line), for
\* SearchLogTool and for the search results of the Report with any number
\* of search patterns.
C10_Original ==
    /\ IsSearch => NeverDescending(result.matches)
    /\ IsReport => \A job \in Folders : NeverDescending(JobResults(job))

\* C10 amended: SearchLogTool's matches ascend in line_number.  The search
\* results of the Report for one job log come in one group per entry of the
\* pattern list, in list order, and ascend in line_number within each
\* group: the line number fails to go up in at most len(patterns) - 1
\* places, and for a list of distinct patterns the results of one pattern
\* ascend and follow the results of every earlier pattern.
C10_OrderedWithinPattern ==
    /\ IsSearch => StrictlyAscending(result.matches)
    /\ IsReport =>
          \A job \in Folders :
              LET ms == JobResults(job)
                  patterns == call.search_patterns
              IN  /\ ms # <<>> => Descents(ms) <= Len(patterns) - 1
                  /\ Distinct(patterns) =>
                        \A a, b \in 1..Len(ms) : a < b =>
                            \/ Position(patterns, ms[a].pattern)
                                 < Position(patterns, ms[b].pattern)
                            \/ /\ ms[a].pattern = ms[b].pattern
                               /\ ms[a].line_number < ms[b].line_number

\* C10 witness: two patterns on one log, the second group starting at a
\* lower line number than the first group ended.
C10_Witness ==
    /\ IsReport
    /\ Len(call.search_patterns) = 2
    /\ Distinct(call.search_patterns)
    /\ \E job \in Folders :
          /\ Len(JobResults(job)) >= 3
          /\ Descents(JobResults(job)) = 1

(***************************************************************************)
(* C11 (checked under SpecRead).                                           *)
(***************************************************************************)
SmallLogRead ==
    /\ IsRead
    /\ ~call.max_lines_given
    /\ logs[call.folder_name].size < SMALL_LOG_THRESHOLD * 1024

C12_Claim ==
    (call.tool = "CIOutputParserTool" /\ ~root_exists)
    => /\ result.kind = "report"
       /\ result.report.jobs_analyzed = <<>>
       /\ result.report.status = EffectiveResult(call.core_ci_result, env)

(***************************************************************************)
(* C13 (checked under Spec).                                               *)
(***************************************************************************)
\* The job list the run works on.
JobList == LoadJobs(root_exists, job_index, logs, dir_order)

\* C13: a job of the job list whose log.txt is missing is skipped without
\* error and the others are still parsed: the call returns a Report whose
\* jobs_analyzed holds exactly the jobs of the list whose log exists, once
\* per entry and in the list's order, each with the number of Findings its
\* own log yields.
C13_MissingLogSkipped ==
    (call.tool = "CIOutputParserTool" /\ root_exists) =>
        /\ result.kind = "report"
        /\ LET present == SelectSeq(JobList, LAMBDA j : logs[j.job_folder].state = "file")
               analyzed == result.report.jobs_analyzed
           IN  /\ Len(analyzed) = Len(present)
               /\ \A i \in 1..Len(present) :
                     /\ analyzed[i].name = present[i].job_name
                     /\ analyzed[i].errors_found
                            = Len(parse_job_log(logs[present[i].job_folder]))

\* C13 witness: the index lists lint then test, lint has no log.txt, and
\* test, whose log yields two Findings, is the one job analysed.
C13_Witness ==
    /\ IsReport
    /\ job_index.state = "ok"
    /\ logs["lint"].state = "nolog"
    /\ logs["test"].state = "file"
    /\ Len(result.report.jobs_analyzed) = 1
    /\ result.report.jobs_analyzed[1].name = "test"
    /\ result.report.jobs_analyzed[1].errors_found = 2

(***************************************************************************)
(* C14 (checked under SpecDiscover).                                       *)
(***************************************************************************)
\* The jobs_analyzed entries of the Report for one job name.
AnalyzedAs(name) ==
    SelectSeq(result.report.jobs_analyzed, LAMBDA a : a.name = name)

\* With an index file the job list is the index's jobs (none when the file
\* cannot be parsed) and the directory is not scanned: the jobs analysed
\* are the index's jobs whose log exists, with the index's conclusions.
IndexUsed ==
    (IsReport /\ job_index.state # "absent") =>
        LET listed == SelectSeq(job_index.jobs, LAMBDA j : logs[j.job_folder].state = "file")
            analyzed == result.report.jobs_analyzed
        IN  /\ JobList = job_index.jobs
            /\ Len(analyzed) = Len(listed)
            /\ \A i \in 1..Len(listed) :
                  /\ analyzed[i].name = listed[i].job_name
                  /\ analyzed[i].conclusion = listed[i].conclusion

\* C14 as stated: the index is used when it exists; without an index the
\* job list has exactly one record, with conclusion "unknown", per immediate
\* subdirectory that contains log.txt, and none for any other subdirectory.
C14_Original ==
    /\ IndexUsed
    /\ (IsReport /\ job_index.state = "absent") =>
          /\ \A i \in 1..Len(JobList) : JobList[i].conclusion = "unknown"
          /\ \A d \in DOMAIN logs :
                /\ Cardinality({i \in 1..Len(JobList) : JobList[i].job_folder = d})
                      = IF logs[d].state = "file" THEN 1 ELSE 0
                /\ Len(AnalyzedAs(d)) = IF logs[d].state = "file" THEN 1 ELSE 0

\* C14: the index is used when it exists; without an index the job list has
\* exactly one record, with conclusion "unknown", per immediate subdirectory
\* that contains log.txt and whose name does not start with ".", and no
\* record for a subdirectory without log.txt or with a name starting ".".
C14_DiscoverSkipsHidden ==
    /\ IndexUsed
    /\ (IsReport /\ job_index.state = "absent") =>
          /\ \A i \in 1..Len(JobList) : JobList[i].conclusion = "unknown"
          /\ \A d \in DOMAIN logs :
                LET expected == IF logs[d].state = "file" /\ d \notin HiddenFolders
                                THEN 1 ELSE 0
                IN  /\ Cardinality({i \in 1..Len(JobList) : JobList[i].job_folder = d})
                          = expected
                    /\ Len(AnalyzedAs(d)) = expected
                    /\ \A i \in 1..Len(AnalyzedAs(d)) :
                          AnalyzedAs(d)[i].conclusion = "unknown"

\* C14 witness: no index; lint and the hidden directory hold log.txt, test
\* does not; the run analysed lint alone.
C14_Witness ==
    /\ IsReport
    /\ job_index.state = "absent"
    /\ logs["lint"].state = "file"
    /\ logs["test"].state = "nolog"
    /\ logs[".cache"].state = "file"
    /\ Len(result.report.jobs_analyzed) = 1
    /\ result.report.jobs_analyzed[1].name = "lint"
    /\ result.report.jobs_analyzed[1].conclusion = "unknown"

(***************************************************************************)
(* C15 (checked under Spec).                                               *)
(***************************************************************************)
\* The order in which _parse_job_log calls the parsers.
ParserOrder ==
    <<"sqlfluff", "stylelint", "markdownlint", "commitlint", "prettier", "black",
      "isort", "ruff", "eslint", "mypy", "pytest", "build">>

ParserIndex(tool) == CHOOSE i \in 1..Len(ParserOrder) : ParserOrder[i] = tool

FindingCount(found, tool) ==
    Cardinality({i \in 1..Len(found) : found[i].tool = tool})

FirstFinding(found, tool) ==
    CHOOSE i \in 1..Len(found) :
        /\ found[i].tool = tool
        /\ \A j \in 1..(i - 1) : found[j].tool # tool

ToolsFound(found) == {found[i].tool : i \in 1..Len(found)}

\* C15 as stated: root_cause names the tool with the highest Finding count
\* over the whole run, and among tools sharing the highest count the one
\* that comes first in the parser order, also over several jobs.
C15_Original ==
    IsReport =>
        LET found == ParserFindings
            worst == result.report.issue_analysis.root_cause[1]
            most == FindingCount(found, worst)
        IN  found # <<>> =>
            /\ worst \in ToolsFound(found)
            /\ \A t \in ToolsFound(found) : FindingCount(found, t) <= most
            /\ \A t \in ToolsFound(found) \ {worst} :
                  FindingCount(found, t) = most
                  => ParserIndex(worst) < ParserIndex(t)

\* C15: root_cause names a tool with the highest Finding count over the
\* whole run, together with that count; among tools sharing the highest
\* count it names the one whose first Finding comes first in the run's list
\* of Findings (jobs in job-list order, parser order within a job), which
\* is the first in parser order when one job was analysed.
C15_FirstEncounteredWins ==
    IsReport =>
        LET found == ParserFindings
            worst == result.report.issue_analysis.root_cause[1]
            most == FindingCount(found, worst)
        IN  found # <<>> =>
            /\ worst \in ToolsFound(found)
            /\ result.report.issue_analysis.root_cause[2] = most
            /\ \A t \in ToolsFound(found) : FindingCount(found, t) <= most
            /\ \A t \in ToolsFound(found) \ {worst} :
                  FindingCount(found, t) = most
                  => /\ FirstFinding(found, worst) < FirstFinding(found, t)
                     /\ Len(result.report.jobs_analyzed) = 1
                        => ParserIndex(worst) < ParserIndex(t)

\* C15 witness: two jobs, the first analysed yields one ruff Finding, the
\* second one black Finding; the tie goes to ruff, met first.
C15_Witness ==
    /\ IsReport
    /\ Len(result.report.jobs_analyzed) = 2
    /\ LET found == ParserFindings
       IN  /\ ToolsFound(found) = {"ruff", "black"}
           /\ FindingCount(found, "ruff") = 1
           /\ FindingCount(found, "black") = 1
           /\ found[1].tool = "ruff"
    /\ result.report.issue_analysis.root_cause = <<"ruff", 1>>

(***************************************************************************)
(* Properties of _parse_job_log (checked under SpecParse).                 *)
(***************************************************************************)
\* A log has been parsed: its lines and the Findings returned.
IsParse == call.tool = "_parse_job_log" /\ logs[call.folder_name].state = "file"

\* What the parser of one tool finds on line i of the content.
FindingsOfLine(tool, content, i) ==
    CASE tool = "stylelint" -> StylelintAt(content, i)
      [] tool = "build" -> BuildFinding(content, i)
      [] OTHER -> LineFindings(tool, content[i])

OrderStable ==
    IsParse =>
        LET found == result.findings
            content == logs[call.folder_name].lines
        IN  /\ \A a, b \in 1..Len(found) :
                  a < b => ParserIndex(found[a].tool) <= ParserIndex(found[b].tool)
            /\ \A p \in 1..Len(ParserOrder) :
                  SelectSeq(found, LAMBDA e : e.tool = ParserOrder[p])
                  = Flatten([i \in 1..Len(content) |->
                                FindingsOfLine(ParserOrder[p], content, i)])

SameOnSecondRun ==
    (call.tool = "_parse_job_log" /\ call'.tool = "_parse_job_log") => result' = result

StrippedLog(log) ==
    LogFile([i \in 1..Len(log.lines) |-> AnsiStrip(log.lines[i])], log.size)

\* C17 as stated: the ANSI escape sequences are removed once, before any
\* parser runs, so every parser works on the same stripped text: the
\* Findings of a log are those of the same log without its ANSI sequences.
C17_Claim ==
    IsParse => result.findings = parse_job_log(StrippedLog(logs[call.folder_name]))

\* The parsers of the tools, the generic build-error parser apart.
ToolParsers == {ParserOrder[p] : p \in 1..(Len(ParserOrder) - 1)}

\* C18 as stated: the build parser emits a Finding only for an Error: /
\* ERROR: line that no tool parser recognises: a line a tool parser yields a
\* Finding for never also yields a build Finding, so a line is counted for
\* one tool only.
C18_Claim ==
    IsParse =>
        LET found == result.findings
            content == logs[call.folder_name].lines
            build == SelectSeq(found, LAMBDA e : e.tool = "build")
        IN  /\ \A i \in 1..Len(content) :
                  (/\ ErrorMarkAt(content[i]) >= 0
                   /\ \E t \in ToolParsers : FindingsOfLine(t, content, i) # <<>>)
                  => \A k \in 1..Len(build) : build[k].message # BuildMessage(content[i])
            /\ Len(found) <= Len(content)

\* `part in text` for the pytest message.
InText(part, text) ==
    /\ text = "Test failed: test_foo - AssertionError: bad"
    /\ part \in {"test_foo", "AssertionError: bad"}

\* C19 as stated: a log whose only content is the pytest line
\* FAILED tests/test_x.py::test_foo - AssertionError: bad yields exactly one
\* Finding: critical, tool pytest, its message holding the test name and
\* the reason; no other parser adds a Finding.
C19_Claim ==
    (IsParse /\ logs[call.folder_name].lines = <<"pytest">>) =>
        /\ Len(result.findings) = 1
        /\ result.findings[1].tool = "pytest"
        /\ result.findings[1].severity = "critical"
        /\ InText("test_foo", result.findings[1].message)
        /\ InText("AssertionError: bad", result.findings[1].message)

StylelintFound == SelectSeq(result.findings, LAMBDA e : e.tool = "stylelint")

SeverityWords == {"invalid", "error", "fail"}

\* C20 as stated: a stylelint Finding is critical exactly when its rule or
\* its message contains "invalid", "error" or "fail" in any case, and
\* warning otherwise.
C20_Original ==
    IsParse =>
        \A k \in 1..Len(StylelintFound) :
            LET e == StylelintFound[k]
            IN  e.severity =
                    IF \E x \in SeverityWords : InLower(x, e.code) \/ InLower(x, e.message)
                    THEN "critical" ELSE "warning"

\* C20: a stylelint Finding is critical exactly when its rule contains
\* "error" or its message contains "invalid", "error" or "fail", in any
\* case, and warning otherwise; "invalid" or "fail" in the rule alone does
\* not make it critical.
C20_RuleErrorOrMessageWord ==
    IsParse =>
        \A k \in 1..Len(StylelintFound) :
            LET e == StylelintFound[k]
            IN  e.severity =
                    IF \/ InLower("error", e.code)
                       \/ \E x \in SeverityWords : InLower(x, e.message)
                    THEN "critical" ELSE "warning"

\* C20 witness: a stylelint block with the rule color-no-invalid-hex under
\* a message without any of the words, then a message "Invalid hex color":
\* the first Finding is a warning, the second critical.
C20_Witness ==
    /\ IsParse
    /\ logs[call.folder_name].lines = <<"slHdr", "slRuleInvalid", "slMsgInvalid">>
    /\ Len(StylelintFound) = 2
    /\ StylelintFound[1].code = "color-no-invalid-hex"
    /\ StylelintFound[1].severity = "warning"
    /\ StylelintFound[2].severity = "critical"

(***************************************************************************)
(* C21 (checked under Spec).                                               *)
(***************************************************************************)
\* C21: checks_performed is the set of tools observed: a tool stands in it
\* exactly once when at least one Finding of the run has that tool, and not
\* at all when none has.
C21_ChecksAreToolsSeen ==
    IsReport =>
        LET found == ParserFindings
            checks == result.report.checks_performed
        IN  \A p \in 1..Len(ParserOrder) :
                Occurrences(checks, ParserOrder[p])
                = IF ParserOrder[p] \in ToolsFound(found) THEN 1 ELSE 0

\* C21 witness: three Findings of two tools, ruff twice; checks_performed
\* lists black and ruff once each, ruff first although black was found first.
C21_Witness ==
    /\ IsReport
    /\ Len(ParserFindings) = 3
    /\ ParserFindings[1].tool = "black"
    /\ FindingCount(ParserFindings, "ruff") = 2
    /\ result.report.checks_performed = <<"ruff", "black">>

(***************************************************************************)
(* The WorkspaceTool over a new workspace directory.                       *)
(***************************************************************************)
\* The strings written: "", twelve and five ASCII letters, "x\r\nx", a text
\* of exactly MAX_FILE_SIZE bytes, and three longer ones: ASCII, 34134 euro
\* signs (102402 bytes), and the same followed by one ASCII letter.
Contents ==
    {EmptyText,
     <<Run("x", 12)>>,
     <<Run("y", 5)>>,
     <<Run("x", 1), Run("CR", 1), Run("LF", 1), Run("x", 1)>>,
     <<Run("x", MAX_FILE_SIZE)>>,
     <<Run("x", MAX_FILE_SIZE + 1)>>,
     <<Run("euro", 34134)>>,
     <<Run("euro", 34134), Run("x", 1)>>}

\* No results directory and no CORE_CI_RESULT: the CI log tools are not used.
FsIdle == InitNoRoot /\ env = NoEnv

InitWorkspace ==
    /\ call = NoCall
    /\ result = NoResult
    /\ FsIdle
    /\ OtherToolsFresh

NextWorkspace ==
    \/ \E f \in WorkspaceNames : WsRead(f)
    \/ \E f \in WorkspaceNames : WsExists(f)
    \/ \E f \in WorkspaceNames, content \in Contents : WsWrite(f, TRUE, content)
    \/ \E f \in WorkspaceNames : WsWrite(f, FALSE, EmptyText)
    \/ TakeResult

SpecWorkspace == InitWorkspace /\ [][NextWorkspace]_vars

IsWsRead == call.tool = "workspace" /\ call.operation = "read"
IsWsExists == call.tool = "workspace" /\ call.operation = "exists"
IsWsWrite == call.tool = "workspace" /\ call.operation = "write"

\* C22 as stated: read of a file larger than 100 KB returns head + notice +
\* tail, head the first 30 KB and tail the last 30 KB of the file, which
\* never overlap, and the notice's bytes shown plus bytes omitted are the
\* file's size; a file of at most 100 KB is returned whole with no notice.
C22_Claim ==
    (IsWsRead /\ workspace[call.filename].state = "file") =>
        LET text == workspace[call.filename].text
        IN  IF Size(text) > MAX_FILE_SIZE
            THEN /\ result.notice.shown
                 /\ Size(result.head) = TRUNCATE_CONTEXT_SIZE
                 /\ result.head = Take(text, Chars(result.head))
                 /\ Size(result.tail) = TRUNCATE_CONTEXT_SIZE
                 /\ result.tail = FromByte(text, Size(text) - TRUNCATE_CONTEXT_SIZE)
                 /\ Size(result.head) + Size(result.tail) <= Size(text)
                 /\ result.notice.first = Size(result.head)
                 /\ result.notice.last = Size(result.tail)
                 /\ result.notice.first + result.notice.last + result.notice.omitted
                        = Size(text)
            ELSE /\ ~result.notice.shown
                 /\ result.head = TranslateNewlines(text)
                 /\ result.tail = EmptyText

\* C24 as stated: after write(f, c) with c of at most 100 KB, read(f)
\* returns exactly c until the next write to f, whatever reads, exists calls
\* and writes to other files happen in between; the last write wins.
C24_Original ==
    (IsWsRead /\ ws_written[call.filename].ever
              /\ Size(ws_written[call.filename].last) <= MAX_FILE_SIZE) =>
        result = Str(ws_written[call.filename].last)

\* C24, amended: after write(f, c) with c of at most 100 KB to a name that is
\* not a directory, read(f) returns the content of the last write to f with
\* every "\r\n" and every lone "\r" turned into "\n", and no notice:
\* exactly c when c holds no "\r".
C24_LastWriteReadBack ==
    (IsWsRead /\ ws_written[call.filename].ever
              /\ Size(ws_written[call.filename].last) <= MAX_FILE_SIZE
              /\ workspace[call.filename].state # "dir") =>
        LET c == ws_written[call.filename].last
        IN  /\ ~result.notice.shown
            /\ result.tail = EmptyText
            /\ Chars(result.head) =
                   Chars(c) - Cardinality({i \in 1..(Len(c) - 1) :
                                              c[i].ch = "CR" /\ c[i + 1].ch = "LF"})
            /\ \A i \in 1..Len(result.head) : result.head[i].ch # "CR"
            /\ (\A i \in 1..Len(c) : c[i].ch # "CR") => result.head = c

\* "x\r\nx" written to a.txt, b.txt written as well, and a.txt read back as
\* "x\nx".
C24_Witness ==
    /\ IsWsRead
    /\ call.filename = "a.txt"
    /\ ws_written["a.txt"].last = <<Run("x", 1), Run("CR", 1), Run("LF", 1), Run("x", 1)>>
    /\ ws_written["b.txt"].ever
    /\ result.head = <<Run("x", 1), Run("LF", 1), Run("x", 1)>>

\* C25 as stated: exists(f) is true exactly when some write to f has
\* happened, read of a never-written name returns "", and read and exists
\* never change the workspace files or their contents.
C25_Original ==
    /\ [](/\ IsWsExists => (result.value = ws_written[call.filename].ever)
          /\ (IsWsRead /\ ~ws_written[call.filename].ever) => result = Str(EmptyText))
    /\ [][(call'.tool = "workspace" /\ call'.operation \in {"read", "exists"})
              => workspace' = workspace]_vars

\* C25, amended: exists(f) is true exactly when some write to f has happened
\* or f names a directory of the workspace (trace exists from construction
\* on); read of a never-written name returns ""; read and exists never
\* change the workspace files or their contents.
C25_ExistsIffWrittenOrDirectory ==
    /\ [](/\ IsWsExists =>
                (result.value = (\/ ws_written[call.filename].ever
                                 \/ call.filename = "trace"))
          /\ (IsWsRead /\ ~ws_written[call.filename].ever) => result = Str(EmptyText))
    /\ [][(call'.tool = "workspace" /\ call'.operation \in {"read", "exists"})
              => workspace' = workspace]_vars

\* exists("trace") answers True although nothing was ever written to trace,
\* while a.txt has been written.
C25_Witness ==
    /\ IsWsExists
    /\ call.filename = "trace"
    /\ ~ws_written["trace"].ever
    /\ ws_written["a.txt"].ever
    /\ result.value = TRUE

(***************************************************************************)
(* The parser over a results directory with logs that cannot be read.     *)
(***************************************************************************)
UnreadableKinds == {"ruffE", "plain"}

InitUnreadable ==
    /\ call = NoCall
    /\ result = NoResult
    /\ OtherToolsFresh
    /\ env \in {NoEnv, EnvValue("failure")}
    /\ root_exists = TRUE
    /\ job_index \in IndexChoices
    /\ \E lint \in LogsOver(UnreadableKinds)
                     \cup {Unreadable(l.lines, l.size) : l \in LogsOver(UnreadableKinds)},
          test \in {NoLog, LogFile(<<"ruffW">>, 40), LogFile(<<"ruffE", "black">>, 80),
                    Unreadable(<<"ruffE">>, 40)} :
          logs = [f \in Folders |-> IF f = "lint" THEN lint ELSE test]
    /\ dir_order \in DirOrders(logs)

NextUnreadable ==
    \/ \E core \in Baselines : RunParser(core, <<>>)
    \/ TakeResult

SpecUnreadable == InitUnreadable /\ [][NextUnreadable]_vars

\* The results directory with the unreadable logs replaced by empty files of
\* the same size.
ReadAsEmpty(fs_logs) ==
    [f \in DOMAIN fs_logs |->
        IF fs_logs[f].state = "unreadable"
        THEN LogFile(<<>>, fs_logs[f].size) ELSE fs_logs[f]]

\* C23: a job log that cannot be read is treated as empty content: the run
\* returns a Report, the job is listed with errors_found = 0, and the Report
\* is the one of the same run with that log empty, so the Findings of every
\* other job are unchanged.
C23_UnreadableLogIsEmpty ==
    (call.tool = "CIOutputParserTool") =>
        /\ result.kind = "report"
        /\ \A i \in 1..Len(result.report.jobs_analyzed) :
              LET job == result.report.jobs_analyzed[i]
              IN  (\E j \in 1..Len(JobList) :
                      /\ JobList[j].job_name = job.name
                      /\ logs[JobList[j].job_folder].state = "unreadable")
                      => job.errors_found = 0
        /\ Len(result.report.jobs_analyzed)
               = Cardinality({j \in 1..Len(JobList) :
                                 logs[JobList[j].job_folder].state \in {"file", "unreadable"}})
        /\ [result.report EXCEPT !.checks_performed = <<>>]
               = BuildReport(root_exists, job_index, ReadAsEmpty(logs), dir_order,
                             env, call.core_ci_result, <<>>, <<>>)

\* The lint log holds a ruff error and cannot be read, the test log holds a
\* ruff error and a black line: the Report lists both jobs, lint with no
\* Finding, and the two Findings of test (one critical, one info).
C23_Witness ==
    /\ call.tool = "CIOutputParserTool"
    /\ result.kind = "report"
    /\ logs["lint"] = Unreadable(<<"ruffE">>, 40)
    /\ logs["test"] = LogFile(<<"ruffE", "black">>, 80)
    /\ Len(result.report.jobs_analyzed) = 2
    /\ \E i \in 1..2 : /\ result.report.jobs_analyzed[i].name = "lint"
                       /\ result.report.jobs_analyzed[i].errors_found = 0
    /\ Len(result.report.critical_errors) = 1
    /\ Len(result.report.info) = 1

\* C27: in every Report, passed is true exactly when status is "success".
C27_PassedIffSuccess ==
    IsReport => (result.report.passed <=> result.report.status = "success")

\* A Report with status "warning" (baseline not "success", warnings and no
\* critical Finding), which has not passed.
C27_Witness ==
    /\ IsReport
    /\ result.report.status = "warning"
    /\ Len(result.report.warnings) > 0
    /\ ~result.report.passed

RECURSIVE SumOf(_)
SumOf(numbers) == IF numbers = <<>> THEN 0 ELSE Head(numbers) + SumOf(Tail(numbers))

\* C28: in every Report the errors_found of the jobs analysed add up to
\* len(critical_errors) + len(warnings) + len(info), critical_errors holds
\* critical Findings only and warnings holds warning Findings only, and when
\* there is any Finding the counts of tool_breakdown add up to the same
\* total.
C28_CountsAgree ==
    IsReport =>
        LET report == result.report
            total == Len(report.critical_errors) + Len(report.warnings) + Len(report.info)
        IN  /\ SumOf([i \in 1..Len(report.jobs_analyzed) |->
                         report.jobs_analyzed[i].errors_found]) = total
            /\ \A i \in 1..Len(report.critical_errors) :
                  report.critical_errors[i].severity = "critical"
            /\ \A i \in 1..Len(report.warnings) :
                  report.warnings[i].severity = "warning"
            /\ total > 0 =>
                  /\ report.issue_analysis.has_breakdown
                  /\ SumOf([i \in 1..Len(report.issue_analysis.tool_breakdown) |->
                               report.issue_analysis.tool_breakdown[i].count]) = total

\* Two jobs with Findings of each severity and of two tools: five Findings
\* in all.
C28_Witness ==
    /\ IsReport
    /\ Len(result.report.jobs_analyzed) = 2
    /\ \A i \in 1..2 : result.report.jobs_analyzed[i].errors_found > 0
    /\ Len(result.report.critical_errors) = 2
    /\ Len(result.report.warnings) = 1
    /\ Len(result.report.info) = 2
    /\ Len(result.report.issue_analysis.tool_breakdown) = 2

(***************************************************************************)
(* The global cost tracker from the import of the module on.               *)
(***************************************************************************)
\* The (tokens_in, tokens_out) of the calls logged.
TokenCounts == {<<0, 0>>, <<100, 50>>, <<200, 100>>, <<150, 75>>}

InitTracker ==
    /\ call = NoCall
    /\ result = NoResult
    /\ FsIdle
    /\ OtherToolsFresh

NextTracker ==
    \/ ResetTracker
    \/ GetTracker
    \/ \E tokens \in TokenCounts : LogApiCall(tokens[1], tokens[2])
    \/ GetSummary
    \/ TakeResult

SpecTracker == InitTracker /\ [][NextTracker]_vars

\* C26: after a reset (and from the import on) followed by n log_api_call
\* calls, get_summary reports total_calls = n, total_tokens_in and
\* total_tokens_out the sums of the logged values, total_tokens their sum
\* (all zero for n = 0); the recorded call numbers are 1..n in call order;
\* and every get_tracker since the reset gave the same instance.
C26_SummaryMatchesLog ==
    LET logged == tracker_log.logged
        n == Len(logged)
        sum_in == SumOf([i \in 1..n |-> logged[i].tokens_in])
        sum_out == SumOf([i \in 1..n |-> logged[i].tokens_out])
    IN  /\ Len(global_tracker.calls) = n
        /\ \A i \in 1..n : /\ global_tracker.calls[i].call_number = i
                           /\ global_tracker.calls[i].tokens_in = logged[i].tokens_in
                           /\ global_tracker.calls[i].tokens_out = logged[i].tokens_out
        /\ Cardinality(tracker_log.seen) <= 1
        /\ (call.tool = "cost_tracker" /\ call.operation = "get_tracker")
              => tracker_log.seen = {result.id}
        /\ (call.tool = "cost_tracker" /\ call.operation = "get_summary") =>
              /\ result.total_calls = n
              /\ result.total_tokens_in = sum_in
              /\ result.total_tokens_out = sum_out
              /\ result.total_tokens = sum_in + sum_out
              /\ n = 0 => (/\ result.total_tokens = 0
                           /\ result.total_tokens_in = 0
                           /\ result.total_tokens_out = 0)

\* The second tracker (made by a reset after earlier calls) with the three
\* calls of the tests logged: 450 tokens in, 225 out.
C26_Witness ==
    /\ call.tool = "cost_tracker"
    /\ call.operation = "get_summary"
    /\ global_tracker.id = 2
    /\ result.total_calls = 3
    /\ result.total_tokens_in = 450
    /\ result.total_tokens_out = 225
    /\ result.total_tokens = 675

(***************************************************************************)
(* The rate limiter used by two threads.                                   *)
(***************************************************************************)
RpmLimits == {1, 2, 3}
TickSteps == {100, 250}

InitLimiter ==
    /\ call = NoCall
    /\ result = NoResult
    /\ FsIdle
    /\ OtherToolsFresh

NextLimiter ==
    \/ \E t \in Threads, rpm \in RpmLimits : SetLimit(t, rpm)
    \/ \E t \in Threads : WaitIfNeeded(t)
    \/ \E t \in Threads : WakeUp(t)
    \/ \E d \in TickSteps : Tick(d)

SpecLimiter == InitLimiter /\ [][NextLimiter]_vars

\* The requests recorded in the 60 seconds that end with request i.
InWindow(i) ==
    {j \in 1..Len(recorded) :
        /\ recorded[j].time <= recorded[i].time
        /\ recorded[i].time - recorded[j].time < WindowTicks}

\* C29 as stated: under any interleaving of set_limit and wait_if_needed
\* calls, set_limit never raises the limit, and the requests recorded within
\* a 60-second window never exceed the rpm limit in force when the last of
\* them was let through, also when the limit was lowered while requests were
\* already recorded.
C29_Claim ==
    /\ [](\A i \in 1..Len(recorded) : Cardinality(InWindow(i)) <= recorded[i].limit)
    /\ [][limiter'.rpm_limit <= limiter.rpm_limit]_vars

(***************************************************************************)
(* main() over the router outcomes.                                        *)
(***************************************************************************)
\* The names a router decision can hold: the four workflows and one that
\* main does not know.
DecisionNames == {WorkflowSteps[i] : i \in 1..Len(WorkflowSteps)} \cup {"security-review"}

RouterOutcomes ==
    {RouterFailed, RouterDecision(WorkflowsNone)}
        \cup {RouterDecision(WorkflowList(names)) :
                 names \in SeqsUpTo(DecisionNames, MaxWorkflows)}

InitMain ==
    /\ call = NoCall
    /\ result = NoResult
    /\ FsIdle
    /\ WorkspaceFresh
    /\ TrackerFresh
    /\ LimiterFresh
    /\ \E router \in RouterOutcomes, model_key_known \in BOOLEAN :
          main = MainStart(router, model_key_known)

NextMain ==
    \/ RunRouter
    \/ GetRateLimitDelay
    \/ MembershipRaises
    \/ \E success \in BOOLEAN : RunWorkflow(success)
    \/ SkipWorkflow
    \/ RunFinalSummary
    \/ PostAndReturn

SpecMain == InitMain /\ [][NextMain]_vars

\* The workflows of the fixed order that the router selected (the default
\* two when the router left nothing usable).
SelectedInOrder ==
    SelectSeq(WorkflowSteps,
              LAMBDA w : Selected(DecidedWorkflows(main.router), w))

\* C30 as stated: on every run of main, the selected workflows run at most
\* once each in the order ci-log-analysis, quick-review, full-review,
\* legal-review whatever their order in the decision and whatever the
\* outcome of the earlier ones, and the final summary runs after them with
\* workflows_executed listing exactly the selected workflows in that order.
C30_Claim ==
    main.pc = "done" =>
        /\ main.summary_ran
        /\ main.summary_workflows = main.workflows_executed
        /\ main.workflows_executed = SelectedInOrder

====
